---- MODULE Spec2Model ----
(***************************************************************************)
(* Model of the armenian-transliteration package: the Latin and Cyrillic   *)
(* transliteration pipelines and the public dispatch function.             *)
(*                                                                         *)
(* A JavaScript string is modelled as a sequence of Unicode code points    *)
(* (every character the model uses lies in the Basic Multilingual Plane,   *)
(* so code points, UTF-16 code units and regular-expression indices        *)
(* coincide).  An optional character (string | undefined) is a sequence of *)
(* length 0 or 1.                                                          *)
(***************************************************************************)
EXTENDS Integers, Sequences, FiniteSets, TLC

\* Longest input text the model hands to transliterate.
MaxLen == 3

\* Longest single word the word-level specification hands to transliterate.
MaxWordLen == 3

\* The longest word of letters of the multi-letter sequences (two
\* occurrences of a three-letter sequence fit).
MaxSeqLen == 6

\* The longest text of a piece with whitespace inside (a run of two
\* whitespace characters between two words fits).
MaxPieceLen == 4

\* The longest word handed to normalization alone (two occurrences of a
\* two-letter sequence fit).
MaxNormLen == 4

(***************************************************************************)
(* Code points named in the rules, tables and regular expressions.         *)
(***************************************************************************)
cp == [ AYB       |-> 1329,   \* U+0531 Armenian capital ayb
        ayb       |-> 1377,   \* U+0561 Armenian small ayb
        ECH       |-> 1333,   \* U+0535 Armenian capital ech
        ech       |-> 1381,   \* U+0565 Armenian small ech
        VO        |-> 1352,   \* U+0548 Armenian capital vo
        vo        |-> 1400,   \* U+0578 Armenian small vo
        VEW       |-> 1358,   \* U+054E Armenian capital vew
        vew       |-> 1406,   \* U+057E Armenian small vew
        YIWN      |-> 1362,   \* U+0552 Armenian capital yiwn
        yiwn      |-> 1410,   \* U+0582 Armenian small yiwn
        SHA       |-> 1351,   \* U+0547 Armenian capital sha
        sha       |-> 1399,   \* U+0577 Armenian small sha
        YI        |-> 1349,   \* U+0545 Armenian capital yi
        yi        |-> 1397,   \* U+0575 Armenian small yi
        men       |-> 1396,   \* U+0574 Armenian small men
        MEN       |-> 1348,   \* U+0544 Armenian capital men
        now       |-> 1398,   \* U+0576 Armenian small now
        NOW       |-> 1350,   \* U+0546 Armenian capital now
        ini       |-> 1387,   \* U+056B Armenian small ini
        INI       |-> 1339,   \* U+053B Armenian capital ini
        xeh       |-> 1389,   \* U+056D Armenian small xeh
        XEH       |-> 1341,   \* U+053D Armenian capital xeh
        EH        |-> 1335,   \* U+0537 Armenian capital eh
        eh        |-> 1383,   \* U+0567 Armenian small eh
        ET        |-> 1336,   \* U+0538 Armenian capital et
        et        |-> 1384,   \* U+0568 Armenian small et
        OH        |-> 1365,   \* U+0555 Armenian capital oh
        oh        |-> 1413,   \* U+0585 Armenian small oh
        ew        |-> 1415,   \* U+0587 Armenian small ligature ech yiwn
        dram      |-> 1423,   \* U+058F Armenian dram sign
        eternity  |-> 1422,   \* U+058E left-facing Armenian eternity sign
        question  |-> 1374,   \* U+055E Armenian question mark
        fullstop  |-> 1417,   \* U+0589 Armenian full stop
        lguil     |-> 171,    \* U+00AB left guillemet
        rguil     |-> 187,    \* U+00BB right guillemet
        currency  |-> 164,    \* U+00A4 currency sign
        asterism  |-> 8258,   \* U+2042 asterism
        interrobang |-> 8253, \* U+203D interrobang
        phono     |-> 8471,   \* U+2117 sound recording copyright
        space     |-> 32,
        lf        |-> 10,
        tab       |-> 9,
        bang      |-> 33,     \* !
        comma     |-> 44,
        hyphen    |-> 45,
        period    |-> 46,
        zero      |-> 48,
        nine      |-> 57,
        latA      |-> 65,     \* Latin capital A
        latZ      |-> 90,
        lata      |-> 97,     \* Latin small a
        latz      |-> 122,
        schwa     |-> 601,    \* U+0259 Latin small schwa
        SCHWA     |-> 399,    \* U+018F Latin capital schwa
        cyrA      |-> 1040,   \* U+0410 Cyrillic capital a
        cyrYA     |-> 1071,   \* U+042F Cyrillic capital ya
        cyra      |-> 1072,   \* U+0430 Cyrillic small a
        cyrya     |-> 1103,   \* U+044F Cyrillic small ya
        TO        |-> 1337,   \* U+0539 Armenian capital to
        to        |-> 1385,   \* U+0569 Armenian small to
        PIWR      |-> 1363,   \* U+0553 Armenian capital piwr
        piwr      |-> 1411,   \* U+0583 Armenian small piwr
        KEH       |-> 1364,   \* U+0554 Armenian capital keh
        keh       |-> 1412,   \* U+0584 Armenian small keh
        apostrophe |-> 39,    \* U+0027 apostrophe
        armCapLo  |-> 1329,   \* U+0531, first Armenian capital letter
        armCapHi  |-> 1366,   \* U+0556, last Armenian capital letter
        armSmLo   |-> 1377,   \* U+0561, first Armenian small letter
        armSmHi   |-> 1414,   \* U+0586, last Armenian small letter
        blockLo   |-> 1328,   \* U+0530, start of the Armenian block
        blockHi   |-> 1423,   \* U+058F, end of the Armenian block
        ligLo     |-> 64275,  \* U+FB13 Armenian small ligature men now
        ligHi     |-> 64279 ] \* U+FB17 Armenian small ligature men xeh

(***************************************************************************)
(* Sequence helpers.                                                       *)
(***************************************************************************)
Range(s) == { s[i] : i \in 1..Len(s) }

RECURSIVE Flatten(_)
\* Array.prototype.join("") of an array of strings.
Flatten(ss) == IF ss = <<>> THEN <<>> ELSE Head(ss) \o Flatten(Tail(ss))

RECURSIVE JoinWith(_, _)
\* Array.prototype.join(sep) of an array of strings.
JoinWith(ss, sep) ==
    IF ss = <<>> THEN <<>>
    ELSE IF Len(ss) = 1 THEN ss[1]
    ELSE ss[1] \o sep \o JoinWith(Tail(ss), sep)

\* Does key occur in s starting at (1-based) position i ?
OccursAt(s, i, key) ==
    /\ i + Len(key) - 1 <= Len(s)
    /\ \A k \in 1..Len(key) : s[i + k - 1] = key[k]

RECURSIVE ReplaceFrom(_, _, _, _)
ReplaceFrom(s, i, key, rep) ==
    IF i > Len(s) THEN <<>>
    ELSE IF OccursAt(s, i, key)
         THEN rep \o ReplaceFrom(s, i + Len(key), key, rep)
         ELSE <<s[i]>> \o ReplaceFrom(s, i + 1, key, rep)

\* String.prototype.replace(new RegExp(key, "g"), rep) for a key of literal
\* characters: every non-overlapping occurrence, scanning left to right.
ReplaceAll(s, key, rep) == ReplaceFrom(s, 1, key, rep)

\* s.split(mark).join(rep) for a non-empty literal mark.
SplitJoin(s, mark, rep) == ReplaceFrom(s, 1, mark, rep)

(***************************************************************************)
(* String.prototype.toUpperCase / toLowerCase, per code point (Unicode     *)
(* default case conversion, SpecialCasing included) for the scripts the    *)
(* pipelines read and write: Basic Latin, schwa, Cyrillic, Armenian.       *)
(***************************************************************************)
ToUpperCP(c) ==
    IF c >= cp.lata /\ c <= cp.latz THEN <<c - 32>>
    ELSE IF c = cp.schwa THEN <<cp.SCHWA>>
    ELSE IF c >= cp.cyra /\ c <= cp.cyrya THEN <<c - 32>>
    ELSE IF c >= cp.armSmLo /\ c <= cp.armSmHi THEN <<c - 48>>
    ELSE IF c = cp.ew THEN <<cp.ECH, cp.YIWN>>
    ELSE IF c = cp.ligLo THEN <<cp.MEN, cp.NOW>>
    ELSE IF c = cp.ligLo + 1 THEN <<cp.MEN, cp.ECH>>
    ELSE IF c = cp.ligLo + 2 THEN <<cp.MEN, cp.INI>>
    ELSE IF c = cp.ligLo + 3 THEN <<cp.VEW, cp.NOW>>
    ELSE IF c = cp.ligHi THEN <<cp.MEN, cp.XEH>>
    ELSE <<c>>

ToLowerCP(c) ==
    IF c >= cp.latA /\ c <= cp.latZ THEN <<c + 32>>
    ELSE IF c = cp.SCHWA THEN <<cp.schwa>>
    ELSE IF c >= cp.cyrA /\ c <= cp.cyrYA THEN <<c + 32>>
    ELSE IF c >= cp.armCapLo /\ c <= cp.armCapHi THEN <<c + 48>>
    ELSE <<c>>

RECURSIVE toUpperCase(_)
toUpperCase(s) == IF s = <<>> THEN <<>> ELSE ToUpperCP(Head(s)) \o toUpperCase(Tail(s))

RECURSIVE toLowerCase(_)
toLowerCase(s) == IF s = <<>> THEN <<>> ELSE ToLowerCP(Head(s)) \o toLowerCase(Tail(s))

(***************************************************************************)
(* Static tables.                                                          *)
(***************************************************************************)
ARM_TO_LAT_MAP ==
       (1377 :> <<97>>)   \* U+0561 small ayb -> a
    @@ (1329 :> <<97>>)   \* U+0531 cap ayb -> a
    @@ (1378 :> <<98>>)   \* U+0562 small ben -> b
    @@ (1330 :> <<98>>)   \* U+0532 cap ben -> b
    @@ (1379 :> <<103>>)   \* U+0563 small gim -> g
    @@ (1331 :> <<103>>)   \* U+0533 cap gim -> g
    @@ (1380 :> <<100>>)   \* U+0564 small da -> d
    @@ (1332 :> <<100>>)   \* U+0534 cap da -> d
    @@ (1381 :> <<101>>)   \* U+0565 small ech -> e
    @@ (1333 :> <<101>>)   \* U+0535 cap ech -> e
    @@ (1382 :> <<122>>)   \* U+0566 small za -> z
    @@ (1334 :> <<122>>)   \* U+0536 cap za -> z
    @@ (1383 :> <<101>>)   \* U+0567 small eh -> e
    @@ (1335 :> <<101>>)   \* U+0537 cap eh -> e
    @@ (1384 :> <<601>>)   \* U+0568 small et -> U+0259
    @@ (1336 :> <<601>>)   \* U+0538 cap et -> U+0259
    @@ (1385 :> <<116, 39>>)   \* U+0569 small to -> t U+0027
    @@ (1337 :> <<116, 39>>)   \* U+0539 cap to -> t U+0027
    @@ (1386 :> <<122, 104>>)   \* U+056A small zhe -> z h
    @@ (1338 :> <<122, 104>>)   \* U+053A cap zhe -> z h
    @@ (1387 :> <<105>>)   \* U+056B small ini -> i
    @@ (1339 :> <<105>>)   \* U+053B cap ini -> i
    @@ (1388 :> <<108>>)   \* U+056C small liwn -> l
    @@ (1340 :> <<108>>)   \* U+053C cap liwn -> l
    @@ (1389 :> <<107, 104>>)   \* U+056D small xeh -> k h
    @@ (1341 :> <<107, 104>>)   \* U+053D cap xeh -> k h
    @@ (1390 :> <<116, 115>>)   \* U+056E small ca -> t s
    @@ (1342 :> <<116, 115>>)   \* U+053E cap ca -> t s
    @@ (1391 :> <<107>>)   \* U+056F small ken -> k
    @@ (1343 :> <<107>>)   \* U+053F cap ken -> k
    @@ (1392 :> <<104>>)   \* U+0570 small ho -> h
    @@ (1344 :> <<104>>)   \* U+0540 cap ho -> h
    @@ (1393 :> <<100, 122>>)   \* U+0571 small ja -> d z
    @@ (1345 :> <<100, 122>>)   \* U+0541 cap ja -> d z
    @@ (1394 :> <<103, 104>>)   \* U+0572 small ghad -> g h
    @@ (1346 :> <<103, 104>>)   \* U+0542 cap ghad -> g h
    @@ (1395 :> <<99, 104, 39>>)   \* U+0573 small cheh -> c h U+0027
    @@ (1347 :> <<99, 104, 39>>)   \* U+0543 cap cheh -> c h U+0027
    @@ (1396 :> <<109>>)   \* U+0574 small men -> m
    @@ (1348 :> <<109>>)   \* U+0544 cap men -> m
    @@ (1397 :> <<121>>)   \* U+0575 small yi -> y
    @@ (1349 :> <<121>>)   \* U+0545 cap yi -> y
    @@ (1398 :> <<110>>)   \* U+0576 small now -> n
    @@ (1350 :> <<110>>)   \* U+0546 cap now -> n
    @@ (1399 :> <<115, 104>>)   \* U+0577 small sha -> s h
    @@ (1351 :> <<115, 104>>)   \* U+0547 cap sha -> s h
    @@ (1400 :> <<111>>)   \* U+0578 small vo -> o
    @@ (1352 :> <<111>>)   \* U+0548 cap vo -> o
    @@ (1401 :> <<99, 104>>)   \* U+0579 small cha -> c h
    @@ (1353 :> <<99, 104>>)   \* U+0549 cap cha -> c h
    @@ (1402 :> <<112>>)   \* U+057A small peh -> p
    @@ (1354 :> <<112>>)   \* U+054A cap peh -> p
    @@ (1403 :> <<106>>)   \* U+057B small jheh -> j
    @@ (1355 :> <<106>>)   \* U+054B cap jheh -> j
    @@ (1404 :> <<114>>)   \* U+057C small ra -> r
    @@ (1356 :> <<114>>)   \* U+054C cap ra -> r
    @@ (1405 :> <<115>>)   \* U+057D small seh -> s
    @@ (1357 :> <<115>>)   \* U+054D cap seh -> s
    @@ (1406 :> <<118>>)   \* U+057E small vew -> v
    @@ (1358 :> <<118>>)   \* U+054E cap vew -> v
    @@ (1407 :> <<116>>)   \* U+057F small tiwn -> t
    @@ (1359 :> <<116>>)   \* U+054F cap tiwn -> t
    @@ (1408 :> <<114>>)   \* U+0580 small reh -> r
    @@ (1360 :> <<114>>)   \* U+0550 cap reh -> r
    @@ (1409 :> <<116, 115>>)   \* U+0581 small co -> t s
    @@ (1361 :> <<116, 115>>)   \* U+0551 cap co -> t s
    @@ (1410 :> <<117>>)   \* U+0582 small yiwn -> u
    @@ (1362 :> <<117>>)   \* U+0552 cap yiwn -> u
    @@ (1411 :> <<112, 39>>)   \* U+0583 small piwr -> p U+0027
    @@ (1363 :> <<112, 39>>)   \* U+0553 cap piwr -> p U+0027
    @@ (1412 :> <<107, 39>>)   \* U+0584 small keh -> k U+0027
    @@ (1364 :> <<107, 39>>)   \* U+0554 cap keh -> k U+0027
    @@ (1413 :> <<111>>)   \* U+0585 small oh -> o
    @@ (1365 :> <<111>>)   \* U+0555 cap oh -> o
    @@ (1414 :> <<102>>)   \* U+0586 small feh -> f
    @@ (1366 :> <<102>>)   \* U+0556 cap feh -> f

ARM_TO_RUS_MAP ==
       (1377 :> <<1072>>)   \* U+0561 small ayb -> U+0430
    @@ (1329 :> <<1040>>)   \* U+0531 cap ayb -> U+0410
    @@ (1378 :> <<1073>>)   \* U+0562 small ben -> U+0431
    @@ (1330 :> <<1041>>)   \* U+0532 cap ben -> U+0411
    @@ (1379 :> <<1075>>)   \* U+0563 small gim -> U+0433
    @@ (1331 :> <<1043>>)   \* U+0533 cap gim -> U+0413
    @@ (1380 :> <<1076>>)   \* U+0564 small da -> U+0434
    @@ (1332 :> <<1044>>)   \* U+0534 cap da -> U+0414
    @@ (1381 :> <<1077>>)   \* U+0565 small ech -> U+0435
    @@ (1333 :> <<1045>>)   \* U+0535 cap ech -> U+0415
    @@ (1382 :> <<1079>>)   \* U+0566 small za -> U+0437
    @@ (1334 :> <<1047>>)   \* U+0536 cap za -> U+0417
    @@ (1383 :> <<1101>>)   \* U+0567 small eh -> U+044D
    @@ (1335 :> <<1069>>)   \* U+0537 cap eh -> U+042D
    @@ (1384 :> <<1099>>)   \* U+0568 small et -> U+044B
    @@ (1336 :> <<1067>>)   \* U+0538 cap et -> U+042B
    @@ (1385 :> <<1090>>)   \* U+0569 small to -> U+0442
    @@ (1337 :> <<1058>>)   \* U+0539 cap to -> U+0422
    @@ (1386 :> <<1078>>)   \* U+056A small zhe -> U+0436
    @@ (1338 :> <<1046>>)   \* U+053A cap zhe -> U+0416
    @@ (1387 :> <<1080>>)   \* U+056B small ini -> U+0438
    @@ (1339 :> <<1048>>)   \* U+053B cap ini -> U+0418
    @@ (1388 :> <<1083>>)   \* U+056C small liwn -> U+043B
    @@ (1340 :> <<1051>>)   \* U+053C cap liwn -> U+041B
    @@ (1389 :> <<1093>>)   \* U+056D small xeh -> U+0445
    @@ (1341 :> <<1061>>)   \* U+053D cap xeh -> U+0425
    @@ (1390 :> <<1094>>)   \* U+056E small ca -> U+0446
    @@ (1342 :> <<1062>>)   \* U+053E cap ca -> U+0426
    @@ (1391 :> <<1082>>)   \* U+056F small ken -> U+043A
    @@ (1343 :> <<1050>>)   \* U+053F cap ken -> U+041A
    @@ (1392 :> <<1093>>)   \* U+0570 small ho -> U+0445
    @@ (1344 :> <<1061>>)   \* U+0540 cap ho -> U+0425
    @@ (1393 :> <<1076, 1079>>)   \* U+0571 small ja -> U+0434 U+0437
    @@ (1345 :> <<1044, 1079>>)   \* U+0541 cap ja -> U+0414 U+0437
    @@ (1394 :> <<1075>>)   \* U+0572 small ghad -> U+0433
    @@ (1346 :> <<1043>>)   \* U+0542 cap ghad -> U+0413
    @@ (1395 :> <<1095, 39>>)   \* U+0573 small cheh -> U+0447 U+0027
    @@ (1347 :> <<1063, 39>>)   \* U+0543 cap cheh -> U+0427 U+0027
    @@ (1396 :> <<1084>>)   \* U+0574 small men -> U+043C
    @@ (1348 :> <<1052>>)   \* U+0544 cap men -> U+041C
    @@ (1397 :> <<1081>>)   \* U+0575 small yi -> U+0439
    @@ (1349 :> <<1049>>)   \* U+0545 cap yi -> U+0419
    @@ (1398 :> <<1085>>)   \* U+0576 small now -> U+043D
    @@ (1350 :> <<1053>>)   \* U+0546 cap now -> U+041D
    @@ (1399 :> <<1096>>)   \* U+0577 small sha -> U+0448
    @@ (1351 :> <<1064>>)   \* U+0547 cap sha -> U+0428
    @@ (1400 :> <<1086>>)   \* U+0578 small vo -> U+043E
    @@ (1352 :> <<1054>>)   \* U+0548 cap vo -> U+041E
    @@ (1401 :> <<1095>>)   \* U+0579 small cha -> U+0447
    @@ (1353 :> <<1063>>)   \* U+0549 cap cha -> U+0427
    @@ (1402 :> <<1087>>)   \* U+057A small peh -> U+043F
    @@ (1354 :> <<1055>>)   \* U+054A cap peh -> U+041F
    @@ (1403 :> <<1078>>)   \* U+057B small jheh -> U+0436
    @@ (1355 :> <<1046>>)   \* U+054B cap jheh -> U+0416
    @@ (1404 :> <<1088>>)   \* U+057C small ra -> U+0440
    @@ (1356 :> <<1056>>)   \* U+054C cap ra -> U+0420
    @@ (1405 :> <<1089>>)   \* U+057D small seh -> U+0441
    @@ (1357 :> <<1057>>)   \* U+054D cap seh -> U+0421
    @@ (1406 :> <<1074>>)   \* U+057E small vew -> U+0432
    @@ (1358 :> <<1042>>)   \* U+054E cap vew -> U+0412
    @@ (1407 :> <<1090>>)   \* U+057F small tiwn -> U+0442
    @@ (1359 :> <<1058>>)   \* U+054F cap tiwn -> U+0422
    @@ (1408 :> <<1088>>)   \* U+0580 small reh -> U+0440
    @@ (1360 :> <<1056>>)   \* U+0550 cap reh -> U+0420
    @@ (1409 :> <<1094>>)   \* U+0581 small co -> U+0446
    @@ (1361 :> <<1062>>)   \* U+0551 cap co -> U+0426
    @@ (1410 :> <<1091>>)   \* U+0582 small yiwn -> U+0443
    @@ (1362 :> <<1059>>)   \* U+0552 cap yiwn -> U+0423
    @@ (1411 :> <<1087, 39>>)   \* U+0583 small piwr -> U+043F U+0027
    @@ (1363 :> <<1055, 39>>)   \* U+0553 cap piwr -> U+041F U+0027
    @@ (1412 :> <<1082, 39>>)   \* U+0584 small keh -> U+043A U+0027
    @@ (1364 :> <<1050, 39>>)   \* U+0554 cap keh -> U+041A U+0027
    @@ (1413 :> <<1086>>)   \* U+0585 small oh -> U+043E
    @@ (1365 :> <<1054>>)   \* U+0555 cap oh -> U+041E
    @@ (1414 :> <<1092>>)   \* U+0586 small feh -> U+0444
    @@ (1366 :> <<1060>>)   \* U+0556 cap feh -> U+0424

ARM_PUNCTUATION_MAP ==
    << <<1369, <<39>>>>   \* U+0559 modifier left half ring -> U+0027
     , <<1370, <<39>>>>   \* U+055A apostrophe -> U+0027
     , <<1371, <<39>>>>   \* U+055B emphasis mark -> U+0027
     , <<1372, <<33>>>>   \* U+055C exclamation mark -> !
     , <<1373, <<44>>>>   \* U+055D comma -> ,
     , <<1374, <<63>>>>   \* U+055E question mark -> ?
     , <<1375, <<46>>>>   \* U+055F abbreviation mark -> .
     , <<1417, <<46>>>>   \* U+0589 full stop -> .
     , <<1418, <<45>>>>   \* U+058A hyphen -> -
     , <<171, <<34>>>>   \* U+00AB left-pointing double angle quotation mark -> U+0022
     , <<187, <<34>>>>   \* U+00BB right-pointing double angle quotation mark -> U+0022
    >>

\* The marks the punctuation map replaces.
PunctuationKeys == { ARM_PUNCTUATION_MAP[i][1] : i \in 1..Len(ARM_PUNCTUATION_MAP) }

ARM_VOWELS ==
    { cp.ayb, cp.AYB, cp.ech, cp.ECH, cp.eh, cp.EH, cp.ini, cp.INI,
      cp.vo, cp.VO, cp.oh, cp.OH, cp.et, cp.ET }

ARMENIAN_LIGATURES ==
    << [ligature |-> cp.ligLo,     expansion |-> <<cp.men, cp.now>>],
       [ligature |-> cp.ligLo + 1, expansion |-> <<cp.men, cp.ech>>],
       [ligature |-> cp.ligLo + 2, expansion |-> <<cp.men, cp.ini>>],
       [ligature |-> cp.ligLo + 3, expansion |-> <<cp.vew, cp.now>>],
       [ligature |-> cp.ligHi,     expansion |-> <<cp.men, cp.xeh>>] >>

\* Faulty variant: the Latin sentinel map without the backward entry of the
\* sentinel written for the letter ew.
TEMP_SYMBOLS_MAP_LAT_Unpaired ==
    [ forward  |-> << <<<<cp.vo, cp.yiwn>>,  cp.asterism>>,
                      <<<<cp.VO, cp.yiwn>>,  cp.asterism>>,
                      <<<<cp.ew>>,           cp.currency>>,
                      <<<<cp.ech, cp.yiwn>>, cp.currency>>,
                      <<<<cp.ECH, cp.yiwn>>, cp.currency>> >>,
      backward |-> (cp.asterism :> <<117>>) ]

\* Faulty variant: the Latin sentinel map with the all-capital spellings of
\* the two digraphs among its forward keys.
TEMP_SYMBOLS_MAP_LAT_AnyCase ==
    [ forward  |-> << <<<<cp.vo, cp.yiwn>>,  cp.asterism>>,
                      <<<<cp.VO, cp.yiwn>>,  cp.asterism>>,
                      <<<<cp.VO, cp.YIWN>>,  cp.asterism>>,
                      <<<<cp.ew>>,           cp.currency>>,
                      <<<<cp.ech, cp.yiwn>>, cp.currency>>,
                      <<<<cp.ECH, cp.yiwn>>, cp.currency>>,
                      <<<<cp.ECH, cp.YIWN>>, cp.currency>> >>,
      backward |-> (cp.asterism :> <<117>>)
                @@ (cp.currency :> <<101, 118>>) ]

\* Latin sentinel map: forward in Object.entries (insertion) order.
TEMP_SYMBOLS_MAP_LAT ==
    [ forward  |-> << <<<<cp.vo, cp.yiwn>>,  cp.asterism>>,
                      <<<<cp.VO, cp.yiwn>>,  cp.asterism>>,
                      <<<<cp.ew>>,           cp.currency>>,
                      <<<<cp.ech, cp.yiwn>>, cp.currency>>,
                      <<<<cp.ECH, cp.yiwn>>, cp.currency>> >>,
      backward |-> (cp.asterism :> <<117>>)            \* "u"
                @@ (cp.currency :> <<101, 118>>) ]     \* "ev"

\* Faulty variant: the Cyrillic sentinel map with the two-letter keys of the
\* letters vo and yiwn ahead of the three-letter ones.
TEMP_SYMBOLS_MAP_RUS_ShortFirst ==
    [ forward  |-> << <<<<cp.vo, cp.yiwn>>,        cp.asterism>>,
                      <<<<cp.VO, cp.yiwn>>,        cp.asterism>>,
                      <<<<cp.yi, cp.vo, cp.yiwn>>, cp.phono>>,
                      <<<<cp.YI, cp.vo, cp.yiwn>>, cp.phono>>,
                      <<<<cp.yi, cp.ayb>>,         cp.interrobang>>,
                      <<<<cp.YI, cp.ayb>>,         cp.interrobang>>,
                      <<<<cp.ew>>,                 cp.currency>>,
                      <<<<cp.ech, cp.yiwn>>,       cp.currency>>,
                      <<<<cp.ECH, cp.yiwn>>,       cp.currency>> >>,
      backward |-> (cp.asterism    :> <<1091>>)
                @@ (cp.currency    :> <<1077, 1074>>)
                @@ (cp.interrobang :> <<1103>>)
                @@ (cp.phono       :> <<1102>>) ]

\* Faulty variant: the Cyrillic sentinel map with the pair of capital yi and
\* capital ayb as one more key of the sentinel of ya.
TEMP_SYMBOLS_MAP_RUS_CapitalYa ==
    [ forward  |-> << <<<<cp.yi, cp.vo, cp.yiwn>>, cp.phono>>,
                      <<<<cp.YI, cp.vo, cp.yiwn>>, cp.phono>>,
                      <<<<cp.yi, cp.ayb>>,         cp.interrobang>>,
                      <<<<cp.YI, cp.ayb>>,         cp.interrobang>>,
                      <<<<cp.YI, cp.AYB>>,         cp.interrobang>>,
                      <<<<cp.vo, cp.yiwn>>,        cp.asterism>>,
                      <<<<cp.VO, cp.yiwn>>,        cp.asterism>>,
                      <<<<cp.ew>>,                 cp.currency>>,
                      <<<<cp.ech, cp.yiwn>>,       cp.currency>>,
                      <<<<cp.ECH, cp.yiwn>>,       cp.currency>> >>,
      backward |-> (cp.asterism    :> <<1091>>)
                @@ (cp.currency    :> <<1077, 1074>>)
                @@ (cp.interrobang :> <<1103>>)
                @@ (cp.phono       :> <<1102>>) ]

\* Cyrillic sentinel map: forward in Object.entries (insertion) order.
TEMP_SYMBOLS_MAP_RUS ==
    [ forward  |-> << <<<<cp.yi, cp.vo, cp.yiwn>>, cp.phono>>,
                      <<<<cp.YI, cp.vo, cp.yiwn>>, cp.phono>>,
                      <<<<cp.yi, cp.ayb>>,         cp.interrobang>>,
                      <<<<cp.YI, cp.ayb>>,         cp.interrobang>>,
                      <<<<cp.vo, cp.yiwn>>,        cp.asterism>>,
                      <<<<cp.VO, cp.yiwn>>,        cp.asterism>>,
                      <<<<cp.ew>>,                 cp.currency>>,
                      <<<<cp.ech, cp.yiwn>>,       cp.currency>>,
                      <<<<cp.ECH, cp.yiwn>>,       cp.currency>> >>,
      backward |-> (cp.asterism    :> <<1091>>)          \* U+0443
                @@ (cp.currency    :> <<1077, 1074>>)    \* U+0435 U+0432
                @@ (cp.interrobang :> <<1103>>)          \* U+044F
                @@ (cp.phono       :> <<1102>>) ]        \* U+044E

\* The two script pipelines.
Scripts == {"en", "ru"}

TEMP_SYMBOLS_MAP(s) == IF s = "en" THEN TEMP_SYMBOLS_MAP_LAT ELSE TEMP_SYMBOLS_MAP_RUS

(***************************************************************************)
(* Regular expressions.  A RegExp object is its character class, its flags *)
(* and its lastIndex; lastIndex is program state (see VARIABLES).          *)
(***************************************************************************)
\* \s of ECMAScript: WhiteSpace and LineTerminator code points.
IsWhiteSpace(c) ==
    \/ c \in {9, 10, 11, 12, 13, 32, 160, 5760, 8232, 8233, 8239, 8287, 12288, 65279}
    \/ (c >= 8192 /\ c <= 8202)

\* Faulty variant: a class of the small letters only.
ARMENIAN_LETTER_REGEX_SmallOnly ==
    [ lo |-> cp.armSmLo, hi |-> cp.armSmHi, also |-> cp.ew, global |-> FALSE ]

\* Faulty variant: a class that every character up to U+FFFF is in.
ARMENIAN_LETTER_REGEX_AnyChar ==
    [ lo |-> 0, hi |-> 65535, also |-> cp.ew, global |-> FALSE ]

\* Faulty variant: the class of ARMENIAN_LETTER_REGEX with the g flag, so
\* every test() moves lastIndex.
ARMENIAN_LETTER_REGEX_Global ==
    [ lo |-> cp.blockLo, hi |-> cp.blockHi, also |-> cp.ew, global |-> TRUE ]

\* /[U+0530-U+058F U+0587]/u : the class, and the flags of the literal.
ARMENIAN_LETTER_REGEX ==
    [ lo |-> cp.blockLo, hi |-> cp.blockHi, also |-> cp.ew, global |-> FALSE ]

ClassMatches(re, c) == (c >= re.lo /\ c <= re.hi) \/ c = re.also

\* RegExp.prototype.test (RegExpBuiltinExec): a global regex starts at
\* lastIndex and leaves the end of the match there (0 after a failure); a
\* non-global regex starts at 0 and does not touch lastIndex.
RegExpTest(re, lastIndex, str) ==
    LET start == IF re.global THEN lastIndex ELSE 0
        hits  == { i \in (start + 1)..Len(str) : ClassMatches(re, str[i]) }
    IN  IF hits = {}
        THEN [found |-> FALSE, lastIndex |-> IF re.global THEN 0 ELSE lastIndex]
        ELSE LET i == CHOOSE h \in hits : \A g \in hits : h <= g
             IN  [found |-> TRUE, lastIndex |-> IF re.global THEN i ELSE lastIndex]

\* The negated class of ARM_SPLIT_REGEX keeps these characters in a piece.
SplitKeeps(c) ==
    \/ (c >= cp.armSmLo /\ c <= cp.armSmHi)
    \/ (c >= cp.armCapLo /\ c <= cp.armCapHi)
    \/ c \in {cp.ew, 1373, 1371, cp.fullstop, cp.comma, cp.period, cp.hyphen,
              cp.lguil, cp.rguil}
    \/ (c >= cp.zero /\ c <= cp.nine)

RECURSIVE RunEnd(_, _, _)
\* End (exclusive, 0-based) of the maximal run from 0-based index q of
\* characters satisfying the class; ws selects \s, otherwise the negated class.
RunEnd(text, q, ws) ==
    IF q < Len(text) /\ (IF ws THEN IsWhiteSpace(text[q + 1]) ELSE ~SplitKeeps(text[q + 1]))
    THEN RunEnd(text, q + 1, ws)
    ELSE q

\* ARM_SPLIT_REGEX = /(\s+|[^...]+)/u matched at index q: the end of the
\* match, or q itself when there is none.  The first alternative wins.
ARM_SPLIT_REGEX(text, q) ==
    IF RunEnd(text, q, TRUE) > q THEN RunEnd(text, q, TRUE) ELSE RunEnd(text, q, FALSE)

(***************************************************************************)
(* common: casing and splitting utilities.                                 *)
(***************************************************************************)
isCharUppercase(ch) == toUpperCase(<<ch>>) = <<ch>> /\ toLowerCase(<<ch>>) # <<ch>>

RECURSIVE SplitLoop(_, _, _), SplitStep(_, _, _, _)
\* String.prototype.split with ARM_SPLIT_REGEX (RegExp.prototype[@@split]):
\* p is the end of the last match, q the index tried next (both 0-based).
\* The capture group puts every delimiter into the result.  The splitter is a
\* copy of the regex, so the shared object's lastIndex is not touched.
SplitLoop(text, p, q) ==
    IF q >= Len(text) THEN << SubSeq(text, p + 1, Len(text)) >>
    ELSE SplitStep(text, p, q, ARM_SPLIT_REGEX(text, q))

\* One iteration of the split loop, e being the end of the match tried at q.
SplitStep(text, p, q, e) ==
    IF e = q THEN SplitLoop(text, p, q + 1)
    ELSE << SubSeq(text, p + 1, q), SubSeq(text, q + 1, e) >> \o SplitLoop(text, e, e)

splitTextPreservingDelimiters(text) ==
    IF Len(text) = 0 THEN << <<>> >> ELSE SplitLoop(text, 0, 0)

RECURSIVE SplitWsLoop(_, _, _), SplitWsStep(_, _, _, _)
SplitWsLoop(str, p, q) ==
    IF q >= Len(str) THEN << SubSeq(str, p + 1, Len(str)) >>
    ELSE SplitWsStep(str, p, q, RunEnd(str, q, TRUE))

SplitWsStep(str, p, q, e) ==
    IF e = q THEN SplitWsLoop(str, p, q + 1)
    ELSE << SubSeq(str, p + 1, q) >> \o SplitWsLoop(str, e, e)

RECURSIVE SplitWsCharLoop(_, _, _)
SplitWsCharLoop(str, p, q) ==
    IF q >= Len(str) THEN << SubSeq(str, p + 1, Len(str)) >>
    ELSE IF IsWhiteSpace(str[q + 1])
         THEN << SubSeq(str, p + 1, q) >> \o SplitWsCharLoop(str, q + 1, q + 1)
         ELSE SplitWsCharLoop(str, p, q + 1)

\* Faulty variant: str.split(/\s/), a split at every whitespace character.
SplitOnWhitespace_EachChar(str) ==
    IF Len(str) = 0 THEN << <<>> >> ELSE SplitWsCharLoop(str, 0, 0)

\* str.split(/\s+/)
SplitOnWhitespace(str) ==
    IF Len(str) = 0 THEN << <<>> >> ELSE SplitWsLoop(str, 0, 0)

applyCasingPattern(text, pattern) ==
    CASE pattern = "upper" -> toUpperCase(text)
      [] pattern = "lower" -> toLowerCase(text)
      [] pattern = "mixed" ->
            IF Len(text) > 0
            THEN toUpperCase(<<Head(text)>>) \o toLowerCase(Tail(text))
            ELSE text
      [] OTHER -> text

RECURSIVE CasingScan(_, _, _, _, _), CasingStep(_, _, _, _, _, _)
\* The loop of determineCasingPattern from (1-based) position i; isCharInScript
\* is ARMENIAN_LETTER_REGEX.test(ch), so the regex's lastIndex is threaded.
CasingScan(word, i, hasUpper, hasLower, lastIndex) ==
    IF i > Len(word)
    THEN [ pattern   |-> IF hasUpper /\ ~hasLower THEN "upper"
                         ELSE IF hasLower /\ ~hasUpper THEN "lower"
                         ELSE "lower",
           lastIndex |-> lastIndex ]
    ELSE CasingStep(word, i, hasUpper, hasLower,
                    RegExpTest(ARMENIAN_LETTER_REGEX, lastIndex, <<word[i]>>),
                    isCharUppercase(word[i]))

\* The loop body for word[i]: inScript is the outcome of isCharInScript(ch)
\* (found, and the regex's lastIndex after the test), isUpper of isCharUpper(ch).
CasingStep(word, i, hasUpper, hasLower, inScript, isUpper) ==
    IF ~inScript.found
    THEN CasingScan(word, i + 1, hasUpper, hasLower, inScript.lastIndex)
    ELSE IF (hasUpper \/ isUpper) /\ (hasLower \/ ~isUpper)
         THEN [pattern |-> "mixed", lastIndex |-> inScript.lastIndex]
         ELSE CasingScan(word, i + 1, hasUpper \/ isUpper, hasLower \/ ~isUpper,
                         inScript.lastIndex)

determineCasingPattern(word, lastIndex) == CasingScan(word, 1, FALSE, FALSE, lastIndex)

(***************************************************************************)
(* Per-script character mapping and first-character rules.                 *)
(***************************************************************************)
\* Faulty variant: a character that is in neither map is dropped.
MapThrough_NoFallback(backward, map, ch) ==
    IF ch \in DOMAIN backward /\ backward[ch] # <<>> THEN backward[ch]
    ELSE IF ch \in DOMAIN map THEN map[ch]
    ELSE <<>>

\* backward[ch] if that is a non-empty string, else map[ch] ?? ch.
MapThrough(backward, map, ch) ==
    IF ch \in DOMAIN backward /\ backward[ch] # <<>> THEN backward[ch]
    ELSE IF ch \in DOMAIN map THEN map[ch]
    ELSE <<ch>>

mapArmenianCharToLatin(ch) == MapThrough(TEMP_SYMBOLS_MAP_LAT.backward, ARM_TO_LAT_MAP, ch)

mapArmenianCharToRussian(ch) == MapThrough(TEMP_SYMBOLS_MAP_RUS.backward, ARM_TO_RUS_MAP, ch)

mapArmenianChar(s, ch) ==
    IF s = "en" THEN mapArmenianCharToLatin(ch) ELSE mapArmenianCharToRussian(ch)

isArmenianVowel(s, ch) ==
    IF ch \in DOMAIN TEMP_SYMBOLS_MAP(s).backward THEN TRUE ELSE ch \in ARM_VOWELS

\* secondChar ? map(secondChar) : ""
MapSecond(s, secondChar) ==
    IF secondChar # <<>> THEN mapArmenianChar(s, secondChar[1]) ELSE <<>>

\* The rule lists, in array order.
FIRST_CHAR_RULES_LAT == << "YeRule", "VoRule", "YevRule" >>

FIRST_CHAR_RULES_RUS == << "YeRule", "VoRule", "YevRule" >>

FIRST_CHAR_RULES(s) == IF s = "en" THEN FIRST_CHAR_RULES_LAT ELSE FIRST_CHAR_RULES_RUS

\* Faulty variant: a match that ignores the case of the first character.
YeRuleMatch_AnyCase(s, firstChar) == firstChar = cp.ECH \/ firstChar = cp.ech

YeRuleMatch(s, firstChar) == firstChar = cp.ECH

YeRuleTransliteration(s, secondChar) ==
    (IF s = "en" THEN <<89, 101>> ELSE <<1045>>) \o MapSecond(s, secondChar)

VoRuleMatch(s, firstChar) == firstChar = cp.VO \/ firstChar = cp.vo

\* Faulty variant: the decision without the test for the letter vew.
VoRuleTransliteration_NoVew(s, secondChar) ==
    LET isNextCharVowel ==
            secondChar # <<>> /\ isArmenianVowel(s, secondChar[1])
        first == IF s = "en"
                 THEN (IF isNextCharVowel THEN <<111>> ELSE <<118, 111>>)
                 ELSE (IF isNextCharVowel THEN <<1086>> ELSE <<1074, 1086>>)
    IN  first \o MapSecond(s, secondChar)

VoRuleTransliteration(s, secondChar) ==
    LET isNextCharVowelOrV ==
            /\ secondChar # <<>>
            /\ \/ isArmenianVowel(s, secondChar[1])
               \/ secondChar[1] = cp.vew
               \/ secondChar[1] = cp.VEW
        first == IF s = "en"
                 THEN (IF isNextCharVowelOrV THEN <<111>> ELSE <<118, 111>>)
                 ELSE (IF isNextCharVowelOrV THEN <<1086>> ELSE <<1074, 1086>>)
    IN  first \o MapSecond(s, secondChar)

\* The Latin rule tests for U+00A4, the Cyrillic rule for U+058E.
YevRuleMatch(s, firstChar) ==
    IF s = "en" THEN firstChar = cp.currency ELSE firstChar = cp.eternity

YevRuleTransliteration(s, secondChar) ==
    (IF s = "en" THEN <<121, 101, 118>> ELSE <<1077, 1074>>) \o MapSecond(s, secondChar)

RuleMatch(s, name, firstChar) ==
    CASE name = "YeRule"  -> YeRuleMatch(s, firstChar)
      [] name = "VoRule"  -> VoRuleMatch(s, firstChar)
      [] name = "YevRule" -> YevRuleMatch(s, firstChar)

RuleTransliteration(s, name, secondChar) ==
    CASE name = "YeRule"  -> YeRuleTransliteration(s, secondChar)
      [] name = "VoRule"  -> VoRuleTransliteration(s, secondChar)
      [] name = "YevRule" -> YevRuleTransliteration(s, secondChar)

RECURSIVE RulesFrom(_, _, _, _)
RulesFrom(s, i, firstChar, secondChar) ==
    IF i > Len(FIRST_CHAR_RULES(s))
    THEN mapArmenianChar(s, firstChar) \o MapSecond(s, secondChar)
    ELSE IF RuleMatch(s, FIRST_CHAR_RULES(s)[i], firstChar)
         THEN RuleTransliteration(s, FIRST_CHAR_RULES(s)[i], secondChar)
         ELSE RulesFrom(s, i + 1, firstChar, secondChar)

\* Faulty variant: the loop over the rules starts at the second rule.
applyFirstCharRules_SkipFirst(s, firstChar, secondChar) ==
    RulesFrom(s, 2, firstChar, secondChar)

applyFirstCharRules(s, firstChar, secondChar) == RulesFrom(s, 1, firstChar, secondChar)

(***************************************************************************)
(* The word pipeline.  A result is [threw, val]: threw means the call      *)
(* ended with an exception instead of returning val.                       *)
(***************************************************************************)
Returned(v) == [threw |-> FALSE, val |-> v]

Thrown == [threw |-> TRUE, val |-> <<>>]

RECURSIVE ExpandLigatures(_, _)
ExpandLigatures(word, i) ==
    IF i > Len(ARMENIAN_LIGATURES) THEN word
    ELSE ExpandLigatures(
            ReplaceAll(word, <<ARMENIAN_LIGATURES[i].ligature>>,
                       ARMENIAN_LIGATURES[i].expansion), i + 1)

RECURSIVE ReplaceSequences(_, _, _)
ReplaceSequences(word, forward, i) ==
    IF i > Len(forward) THEN word
    ELSE ReplaceSequences(ReplaceAll(word, forward[i][1], <<forward[i][2]>>),
                          forward, i + 1)

\* word with the first occurrence of key, if any, replaced by rep.
ReplaceFirstKey(word, key, rep) ==
    IF \E i \in 1..Len(word) : OccursAt(word, i, key)
    THEN SubSeq(word, 1, (CHOOSE i \in 1..Len(word) :
                             /\ OccursAt(word, i, key)
                             /\ \A k \in 1..(i - 1) : ~OccursAt(word, k, key)) - 1)
         \o rep
         \o SubSeq(word, (CHOOSE i \in 1..Len(word) :
                             /\ OccursAt(word, i, key)
                             /\ \A k \in 1..(i - 1) : ~OccursAt(word, k, key)) + Len(key),
                   Len(word))
    ELSE word

RECURSIVE ReplaceSequencesOnce(_, _, _)
ReplaceSequencesOnce(word, forward, i) ==
    IF i > Len(forward) THEN word
    ELSE ReplaceSequencesOnce(ReplaceFirstKey(word, forward[i][1], <<forward[i][2]>>),
                              forward, i + 1)

\* Faulty variant: the sequence regexes without the g flag, so each key is
\* replaced at its first occurrence only.
normalizeArmenianWord_NotGlobal(s, word) ==
    ReplaceSequencesOnce(ExpandLigatures(word, 1), TEMP_SYMBOLS_MAP(s).forward, 1)

normalizeArmenianWord(s, word) ==
    ReplaceSequences(ExpandLigatures(word, 1), TEMP_SYMBOLS_MAP(s).forward, 1)

RECURSIVE MapChars(_, _)
MapChars(s, chars) ==
    IF chars = <<>> THEN <<>>
    ELSE mapArmenianChar(s, Head(chars)) \o MapChars(s, Tail(chars))

\* Faulty variant: the first-character rules are applied at the first
\* character that ARMENIAN_LETTER_REGEX matches or that is a sentinel, a
\* leading character of another kind being mapped before it.
RawAfterLengthCheck_FirstLetter(s, chars) ==
    IF /\ Len(chars) >= 2
       /\ ~ClassMatches(ARMENIAN_LETTER_REGEX, chars[1])
       /\ chars[1] \notin DOMAIN TEMP_SYMBOLS_MAP(s).backward
    THEN Returned(mapArmenianChar(s, chars[1])
                  \o applyFirstCharRules(s, chars[2],
                         IF Len(chars) >= 3 THEN <<chars[3]>> ELSE <<>>)
                  \o MapChars(s, SubSeq(chars, 4, Len(chars))))
    ELSE IF Len(chars) = 0 THEN Thrown
    ELSE Returned(applyFirstCharRules(s, chars[1],
                         IF Len(chars) >= 2 THEN <<chars[2]>> ELSE <<>>)
                  \o MapChars(s, SubSeq(chars, 3, Len(chars))))

\* Faulty variant: the main loop starts at the second character, which the
\* first-character step has mapped already.
RawAfterLengthCheck_SecondTwice(s, chars) ==
    LET firstChar  == IF Len(chars) >= 1 THEN <<chars[1]>> ELSE <<>>
        secondChar == IF Len(chars) >= 2 THEN <<chars[2]>> ELSE <<>>
        restChars  == SubSeq(chars, 2, Len(chars))
    IN  IF firstChar = <<>> THEN Thrown
        ELSE Returned(applyFirstCharRules(s, firstChar[1], secondChar)
                      \o (IF secondChar # <<>> THEN MapChars(s, restChars) ELSE <<>>))

\* transliterateArmenianWordRaw after the length check: the destructuring,
\* the safety check on firstChar and the two mapping steps.
RawAfterLengthCheck(s, chars) ==
    LET firstChar  == IF Len(chars) >= 1 THEN <<chars[1]>> ELSE <<>>
        secondChar == IF Len(chars) >= 2 THEN <<chars[2]>> ELSE <<>>
        restChars  == SubSeq(chars, 3, Len(chars))
    IN  IF firstChar = <<>> THEN Thrown
        ELSE Returned(applyFirstCharRules(s, firstChar[1], secondChar)
                      \o (IF secondChar # <<>> THEN MapChars(s, restChars) ELSE <<>>))

\* Faulty variant: no early return for the empty word.
transliterateArmenianWordRaw_NoLengthCheck(s, word) == RawAfterLengthCheck(s, word)

transliterateArmenianWordRaw(s, word) ==
    IF Len(word) = 0 THEN Returned(<<>>) ELSE RawAfterLengthCheck(s, word)

\* applyCasingPattern(rawWord, pattern), d being what determineCasingPattern
\* returned and where it left the regex.
ApplyDetermined(rawWord, d) ==
    [val |-> applyCasingPattern(rawWord, d.pattern), lastIndex |-> d.lastIndex]

applyOriginalCasingPattern(originalWord, rawWord, lastIndex) ==
    ApplyDetermined(rawWord, determineCasingPattern(originalWord, lastIndex))

\* Step 3 of transliterateArmenianWord, reached unless step 2 threw.
RecaseRaw(word, rawWord, lastIndex) ==
    IF rawWord.threw
    THEN [threw |-> TRUE, val |-> <<>>, lastIndex |-> lastIndex]
    ELSE [threw |-> FALSE] @@ applyOriginalCasingPattern(word, rawWord.val, lastIndex)

transliterateArmenianWord(s, word, lastIndex) ==
    RecaseRaw(word, transliterateArmenianWordRaw(s, normalizeArmenianWord(s, word)),
              lastIndex)

(***************************************************************************)
(* The text pipeline.                                                      *)
(***************************************************************************)
\* s with the first occurrence of the character mark replaced by rep.
ReplaceFirstMark(s, mark, rep) ==
    IF \E j \in 1..Len(s) : s[j] = mark
    THEN SubSeq(s, 1, (CHOOSE j \in 1..Len(s) :
                          s[j] = mark /\ \A k \in 1..(j - 1) : s[k] # mark) - 1)
         \o rep
         \o SubSeq(s, (CHOOSE j \in 1..Len(s) :
                          s[j] = mark /\ \A k \in 1..(j - 1) : s[k] # mark) + 1, Len(s))
    ELSE s

RECURSIVE PunctuationFirstFrom(_, _)
PunctuationFirstFrom(text, i) ==
    IF i > Len(ARM_PUNCTUATION_MAP) THEN text
    ELSE PunctuationFirstFrom(
            ReplaceFirstMark(text, ARM_PUNCTUATION_MAP[i][1], ARM_PUNCTUATION_MAP[i][2]),
            i + 1)

RECURSIVE PunctuationFrom(_, _)
PunctuationFrom(text, i) ==
    IF i > Len(ARM_PUNCTUATION_MAP) THEN text
    ELSE PunctuationFrom(
            SplitJoin(text, <<ARM_PUNCTUATION_MAP[i][1]>>, ARM_PUNCTUATION_MAP[i][2]),
            i + 1)

\* Faulty variant: each mark replaced at its first occurrence only, as
\* result.replace(armMark, latinMark) would.
replaceArmenianPunctuation_FirstOnly(text) == PunctuationFirstFrom(text, 1)

replaceArmenianPunctuation(text) == PunctuationFrom(text, 1)

\* Array.prototype.map, one element done: v is the callback's value for the
\* head, r what mapping the tail gave.  An exception ends the map.
Cons(v, r) == [threw |-> r.threw, vals |-> <<v>> \o r.vals, lastIndex |-> r.lastIndex]

RECURSIVE MapWords(_, _, _), MapWordsStep(_, _, _)
\* subWords.map(transliterateArmenianWord): [threw, vals, lastIndex].
MapWords(s, subWords, lastIndex) ==
    IF subWords = <<>> THEN [threw |-> FALSE, vals |-> <<>>, lastIndex |-> lastIndex]
    ELSE MapWordsStep(s, subWords, transliterateArmenianWord(s, Head(subWords), lastIndex))

MapWordsStep(s, subWords, w) ==
    IF w.threw THEN [threw |-> TRUE, vals |-> <<>>, lastIndex |-> w.lastIndex]
    ELSE Cons(w.val, MapWords(s, Tail(subWords), w.lastIndex))

\* Faulty variant: the sub-words joined with the empty string.
SubWordSeparator_Empty == <<>>

\* The separator the transliterated sub-words are joined with.
SubWordSeparator == <<cp.space>>

\* The callback of tokens.map: one token to its processed form.
\* transliteratedSubWords.join(" ")
JoinSubWords(m) ==
    [threw |-> m.threw, val |-> JoinWith(m.vals, SubWordSeparator), lastIndex |-> m.lastIndex]

\* The branch of the tokens.map callback on ARMENIAN_LETTER_REGEX.test(token).
TokenBranch(s, tokenWithoutPunctuation, t) ==
    IF t.found
    THEN JoinSubWords(MapWords(s, SplitOnWhitespace(tokenWithoutPunctuation), t.lastIndex))
    ELSE [threw |-> FALSE, val |-> tokenWithoutPunctuation, lastIndex |-> t.lastIndex]

\* The tokens.map callback after punctuation replacement.
ProcessSubstituted(s, tokenWithoutPunctuation, lastIndex) ==
    TokenBranch(s, tokenWithoutPunctuation,
                RegExpTest(ARMENIAN_LETTER_REGEX, lastIndex, tokenWithoutPunctuation))

\* The callback of tokens.map: one token to its processed form.
ProcessToken(s, token, lastIndex) ==
    ProcessSubstituted(s, replaceArmenianPunctuation(token), lastIndex)

RECURSIVE MapTokens(_, _, _), MapTokensStep(_, _, _)
MapTokens(s, tokens, lastIndex) ==
    IF tokens = <<>> THEN [threw |-> FALSE, vals |-> <<>>, lastIndex |-> lastIndex]
    ELSE MapTokensStep(s, tokens, ProcessToken(s, Head(tokens), lastIndex))

MapTokensStep(s, tokens, w) ==
    IF w.threw THEN [threw |-> TRUE, vals |-> <<>>, lastIndex |-> w.lastIndex]
    ELSE Cons(w.val, MapTokens(s, Tail(tokens), w.lastIndex))

\* processedTokens.join(""), unless the map threw; the two arrays of the call
\* are kept beside the value it returns.
JoinTokens(tokens, m) ==
    [ kind            |-> IF m.threw THEN "threw" ELSE "string",
      val             |-> IF m.threw THEN <<>> ELSE Flatten(m.vals),
      lastIndex       |-> m.lastIndex,
      tokens          |-> tokens,
      processedTokens |-> m.vals ]

\* tokens.map(callback) and the join of what it gives.
ProcessTokens(s, tokens, lastIndex) ==
    JoinTokens(tokens, MapTokens(s, tokens, lastIndex))

\* The body shared by the two script pipelines' text entry points.
TransliterateText(s, text, lastIndex) ==
    ProcessTokens(s, splitTextPreservingDelimiters(text), lastIndex)

transliterateArmenianTextToEng(text, lastIndex) == TransliterateText("en", text, lastIndex)

transliterateArmenianTextToRus(text, lastIndex) == TransliterateText("ru", text, lastIndex)

(***************************************************************************)
(* The public entry point.  The language argument is optional: <<>> is an  *)
(* omitted argument, <<tag>> a given one.                                  *)
(***************************************************************************)
\* Faulty variant: the other script as the default.
DefaultLanguage_Ru == "ru"

DefaultLanguage == "en"

\* The switch of transliterate; a tag matching no case falls out of the
\* function, which then returns undefined.
Dispatch(text, language, lastIndex) ==
    CASE language = "en" -> transliterateArmenianTextToEng(text, lastIndex)
      [] language = "ru" -> transliterateArmenianTextToRus(text, lastIndex)
      [] OTHER -> [ kind |-> "undefined", val |-> <<>>, lastIndex |-> lastIndex,
                    tokens |-> <<>>, processedTokens |-> <<>> ]

transliterate(text, languageArg, lastIndex) ==
    Dispatch(text, IF languageArg = <<>> THEN DefaultLanguage ELSE languageArg[1], lastIndex)

(***************************************************************************)
(* The program as a state machine: a caller makes transliterate calls one  *)
(* after another.  The only state that outlives a call is the module-level *)
(* ARMENIAN_LETTER_REGEX object, whose lastIndex every test() may move.    *)
(***************************************************************************)
VARIABLES
    pc,          \* "idle": no call in progress; "returned": a call has ended
    text,        \* the text argument of the last call
    language,    \* the language argument of the last call (<<>> when omitted)
    result,      \* [kind, val]: how the last call ended and what it returned
    tokens,      \* the tokens array of the last call
    processedTokens,  \* the processedTokens array of the last call
    lastIndex    \* ARMENIAN_LETTER_REGEX.lastIndex

vars == << pc, text, language, result, tokens, processedTokens, lastIndex >>

\* Characters of the input texts: an Armenian letter in both cases, two kinds
\* of whitespace, a delimiter symbol, two keys of the punctuation map (one the
\* split keeps in a word, one it does not), an Armenian-block sign that is
\* not a letter, and a Latin letter.
TextAlphabet ==
    { cp.AYB, cp.ayb, cp.space, cp.lf, cp.bang, cp.dram, cp.question, cp.latA,
      cp.lguil }

\* Characters of single words: letters the rules and sentinel maps single out,
\* a letter with a two-letter rendering, a digit and kept punctuation.
WordAlphabet ==
    { cp.ayb, cp.ECH, cp.ech, cp.VO, cp.vo, cp.vew, cp.yiwn, cp.ew, cp.SHA,
      cp.hyphen, cp.zero }

SeqsUpTo(S, n) == UNION { [1..k -> S] : k \in 0..n }

Texts == SeqsUpTo(TextAlphabet, MaxLen)

Words == SeqsUpTo(WordAlphabet, MaxWordLen) \ { <<>> }

\* What a caller can pass as the language argument; "fr" stands for any tag
\* other than the two recognized ones.
LanguageArgs == { <<>>, <<"en">>, <<"ru">>, <<"fr">> }

Init ==
    /\ pc = "idle"
    /\ text = <<>>
    /\ language = <<>>
    /\ result = [kind |-> "none", val |-> <<>>]
    /\ tokens = <<>>
    /\ processedTokens = <<>>
    /\ lastIndex = 0

\* The end of a call: r is what transliterate gave and where it left the regex.
Ends(r) ==
    /\ result' = [kind |-> r.kind, val |-> r.val]
    /\ tokens' = r.tokens
    /\ processedTokens' = r.processedTokens
    /\ lastIndex' = r.lastIndex

\* One call of transliterate(t, g), from entry to return or throw.
Call(t, g) ==
    /\ pc = "idle"
    /\ Ends(transliterate(t, g, lastIndex))
    /\ text' = t
    /\ language' = g
    /\ pc' = "returned"

\* The caller takes the result and is ready for its next call.
Continue ==
    /\ pc = "returned"
    /\ pc' = "idle"
    /\ text' = <<>>
    /\ language' = <<>>
    /\ result' = [kind |-> "none", val |-> <<>>]
    /\ tokens' = <<>>
    /\ processedTokens' = <<>>
    /\ UNCHANGED lastIndex

\* A call with any text and any language argument.
CallText == pc = "idle" /\ \E t \in Texts, g \in LanguageArgs : Call(t, g)

\* A call with a single word and a recognized language tag.
CallWord == pc = "idle" /\ \E t \in Words, g \in { <<"en">>, <<"ru">> } : Call(t, g)

Next == CallText \/ Continue

NextWord == CallWord \/ Continue

Spec == Init /\ [][Next]_vars

SpecWord == Init /\ [][NextWord]_vars


(***************************************************************************)
(* Vocabulary of the properties.                                           *)
(***************************************************************************)
\* The letters of the Armenian alphabet: capitals U+0531..U+0556, small
\* letters U+0561..U+0586 and the ligature U+0587.
IsArmenianCapital(c) == c >= cp.armCapLo /\ c <= cp.armCapHi

IsArmenianSmall(c) == (c >= cp.armSmLo /\ c <= cp.armSmHi) \/ c = cp.ew

IsArmenianLetter(c) == IsArmenianCapital(c) \/ IsArmenianSmall(c)

ArmenianLettersOf(str) == SelectSeq(str, IsArmenianLetter)

HasArmenianLetter(str) == \E i \in 1..Len(str) : IsArmenianLetter(str[i])

\* A character that has a lowercase (uppercase) form other than itself.
IsUpperLetter(c) == toLowerCase(<<c>>) # <<c>>

IsLowerLetter(c) == toUpperCase(<<c>>) # <<c>>

IsCasedLetter(c) == IsUpperLetter(c) \/ IsLowerLetter(c)

EntirelyUpper(out) == \A i \in 1..Len(out) : ~IsLowerLetter(out[i])

EntirelyLower(out) == \A i \in 1..Len(out) : ~IsUpperLetter(out[i])

\* The first of these letters is uppercase and every following one lowercase.
CapitalizedLetters(letters) ==
    /\ letters # <<>>
    /\ IsUpperLetter(letters[1])
    /\ \A i \in 2..Len(letters) : IsLowerLetter(letters[i])

Capitalized(out) == CapitalizedLetters(SelectSeq(out, IsCasedLetter))

\* out has the casing the Armenian letters of a word ask for.
CasingKept(letters, out) ==
    IF \A i \in 1..Len(letters) : IsArmenianCapital(letters[i]) THEN EntirelyUpper(out)
    ELSE IF \A i \in 1..Len(letters) : IsArmenianSmall(letters[i]) THEN EntirelyLower(out)
    ELSE Capitalized(out)

\* raw in the casing the Armenian letters of a word ask for.
Recased(letters, raw) ==
    IF \A i \in 1..Len(letters) : IsArmenianCapital(letters[i]) THEN toUpperCase(raw)
    ELSE IF \A i \in 1..Len(letters) : IsArmenianSmall(letters[i]) THEN toLowerCase(raw)
    ELSE IF raw = <<>> THEN raw
    ELSE toUpperCase(<<Head(raw)>>) \o toLowerCase(Tail(raw))

\* The counterpart of a key of the punctuation map, any other character itself.
CounterpartOf(c) ==
    IF \E i \in 1..Len(ARM_PUNCTUATION_MAP) : ARM_PUNCTUATION_MAP[i][1] = c
    THEN ARM_PUNCTUATION_MAP[CHOOSE i \in 1..Len(ARM_PUNCTUATION_MAP) :
                                 ARM_PUNCTUATION_MAP[i][1] = c][2]
    ELSE <<c>>

SubstituteMarks(str) == Flatten([i \in 1..Len(str) |-> CounterpartOf(str[i])])

\* Every whitespace character of str is a space with no space before it.
SingleSpaced(str) ==
    \A i \in 1..Len(str) :
        IsWhiteSpace(str[i]) => (str[i] = cp.space /\ (i = 1 \/ str[i - 1] # cp.space))

\* The number of maximal runs of non-whitespace characters.
TokenCount(str) ==
    Cardinality({ i \in 1..Len(str) :
                    ~IsWhiteSpace(str[i]) /\ (i = 1 \/ IsWhiteSpace(str[i - 1])) })

IsSentinel(s, c) == c \in DOMAIN TEMP_SYMBOLS_MAP(s).backward

\* The plain rendering of a character: "o" for the letter vo, "e" for the
\* letter ech, the character map's rendering for every other character.
PlainChar(s, c) ==
    IF c = cp.VO \/ c = cp.vo THEN (IF s = "en" THEN <<111>> ELSE <<1086>>)
    ELSE IF c = cp.ECH \/ c = cp.ech THEN (IF s = "en" THEN <<101>> ELSE <<1077>>)
    ELSE mapArmenianChar(s, c)

PlainChars(s, chars) == Flatten([i \in 1..Len(chars) |-> PlainChar(s, chars[i])])

\* The last call returned a string.
Done == pc = "returned" /\ result.kind = "string"

(***************************************************************************)
(* The properties.                                                         *)
(***************************************************************************)
\* C1: whatever Armenian word is given, for either script, the output is
\* entirely uppercase if all the Armenian letters of the word are uppercase,
\* entirely lowercase if all are lowercase, and otherwise has its first letter
\* uppercase and every following letter lowercase.
C1_CasingRoundTrip ==
    (Done /\ HasArmenianLetter(text)) => CasingKept(ArmenianLettersOf(text), result.val)

\* C2: a text with no Armenian letter is returned unchanged but for the keys
\* of the punctuation map, which are replaced by their counterparts.
C2_ForeignTextUnchanged ==
    (Done /\ ~HasArmenianLetter(text)) => result.val = SubstituteMarks(text)

\* C3: the pieces of the split concatenate back to the input, the output is
\* the concatenation of the processed pieces in order, and every delimiter
\* piece (the pieces at even positions) is in the output as it was in the
\* input, a key of the punctuation map by its counterpart.
C3_DelimitersPreserved ==
    Done =>
        /\ Flatten(tokens) = text
        /\ Len(processedTokens) = Len(tokens)
        /\ result.val = Flatten(processedTokens)
        /\ \A i \in 1..Len(tokens) :
               i % 2 = 0 => processedTokens[i] = SubstituteMarks(tokens[i])

\* C4: for an input whose only whitespace is single spaces, the output has as
\* many whitespace-delimited tokens as the input.
C4_TokenCountPreserved ==
    (Done /\ SingleSpaced(text)) => TokenCount(result.val) = TokenCount(text)

\* A piece holding a space matched ARMENIAN_LETTER_REGEX, so went through the
\* split on whitespace and the join, and the two tokens of the input are two
\* tokens of the output.
C4_SubWordsRejoined ==
    /\ Done
    /\ SingleSpaced(text)
    /\ TokenCount(text) = 2
    /\ TokenCount(result.val) = 2
    /\ \E i \in 1..Len(tokens) :
           /\ \E j \in 1..Len(tokens[i]) : tokens[i][j] = cp.space
           /\ RegExpTest(ARMENIAN_LETTER_REGEX, lastIndex,
                         replaceArmenianPunctuation(tokens[i])).found

\* C5: no call of transliterate ends with an exception.
C5_NeverThrows == pc = "returned" => result.kind # "threw"

\* The piece is one the pipeline splits into sub-words, an empty one among them.
HasEmptySubWord(piece) ==
    /\ \E j \in 1..Len(piece) : ClassMatches(ARMENIAN_LETTER_REGEX, piece[j])
    /\ \E k \in 1..Len(SplitOnWhitespace(piece)) : SplitOnWhitespace(piece)[k] = <<>>

\* A call that handed an empty word to the word pipeline has returned.
C5_EmptyWordReturned ==
    /\ Done
    /\ \E i \in 1..Len(tokens) : HasEmptySubWord(replaceArmenianPunctuation(tokens[i]))

\* C6: a call with a script tag other than "en" and "ru" ends with an error.
C6_UnknownTagRejected ==
    (pc = "returned" /\ language # <<>> /\ language[1] \notin Scripts)
        => result.kind = "threw"

\* The call that is ending ends as r, a script pipeline's result, does.
C7_EndsAs(r) == result' = [kind |-> r.kind, val |-> r.val]

\* C7: a call without a script tag and a call with "en" return what the Latin
\* pipeline returns for the text, a call with "ru" what the Cyrillic one does.
C7_Dispatch ==
    [][ (pc = "idle" /\ pc' = "returned") =>
            /\ (language' = <<>> \/ language' = <<"en">>)
                   => C7_EndsAs(transliterateArmenianTextToEng(text', lastIndex))
            /\ language' = <<"ru">>
                   => C7_EndsAs(transliterateArmenianTextToRus(text', lastIndex)) ]_vars

\* A call without a script tag returned the Latin rendering of an Armenian text.
C7_DefaultedToLatin ==
    /\ Done
    /\ language = <<>>
    /\ HasArmenianLetter(text)
    /\ \E i \in 1..Len(result.val) : result.val[i] >= cp.lata /\ result.val[i] <= cp.latz

\* The last call ended as r, the same call made before any other, does.
C8_SameAs(r) == result = [kind |-> r.kind, val |-> r.val]

\* C8: the shared regular expression is where it was before any call, and a
\* call returns what the same call returns when it is the first one made.
C8_Pure ==
    /\ lastIndex = 0
    /\ pc = "returned" => C8_SameAs(transliterate(text, language, 0))

\* A call tested the shared regular expression against a piece it matches,
\* and the regular expression is where it was.
C8_TestedAndUnmoved ==
    /\ Done
    /\ lastIndex = 0
    /\ \E i \in 1..Len(tokens) :
           RegExpTest(ARMENIAN_LETTER_REGEX, 0, replaceArmenianPunctuation(tokens[i])).found

\* The onset the letter vo gets at the head of the normalized word n.
VoOnset(s, n) ==
    IF Len(n) >= 2 /\ (n[2] \in ARM_VOWELS \/ IsSentinel(s, n[2])
                       \/ n[2] = cp.vew \/ n[2] = cp.VEW)
    THEN (IF s = "en" THEN <<111>> ELSE <<1086>>)
    ELSE (IF s = "en" THEN <<118, 111>> ELSE <<1074, 1086>>)

C9_Holds(s, word, n) ==
    (n # <<>> /\ (n[1] = cp.VO \/ n[1] = cp.vo))
        => result.val = Recased(ArmenianLettersOf(word),
                                VoOnset(s, n) \o PlainChars(s, Tail(n)))

\* C9: a word that, once its sequences are replaced by sentinels, begins with
\* the letter vo is rendered with "o" for that letter if the next character is
\* an Armenian vowel, a sentinel or the letter vew, with "vo" otherwise (no
\* next character, a consonant, a digit, punctuation); the letter vo at any
\* later position is "o".  The Cyrillic onsets are the Cyrillic o and vo.
C9_VoInitial ==
    Done => C9_Holds(language[1], text, normalizeArmenianWord(language[1], text))

\* A word beginning with the letter vo and the letter vew came out with "o" first.
C9_VoBeforeVew ==
    /\ Done
    /\ Len(text) >= 2
    /\ (text[1] = cp.VO \/ text[1] = cp.vo)
    /\ text[2] = cp.vew
    /\ toLowerCase(<<result.val[1]>>) = (IF language[1] = "en" THEN <<111>> ELSE <<1086>>)

C10_Holds(s, word, n) ==
    /\ (n # <<>> /\ n[1] = cp.ECH)
           => result.val = Recased(ArmenianLettersOf(word),
                                   (IF s = "en" THEN <<89, 101>> ELSE <<1045>>)
                                       \o PlainChars(s, Tail(n)))
    /\ (n # <<>> /\ n[1] = cp.ech)
           => result.val = Recased(ArmenianLettersOf(word), PlainChars(s, n))

\* C10: a word that, once its sequences are replaced by sentinels, begins with
\* the capital letter ech is rendered with the onset "Ye" (the Cyrillic capital
\* ie) followed by the rendering of the rest; a word that begins with the small
\* letter ech begins with plain "e"; the letter ech at any later position is
\* "e".  The casing of the word is then applied to the whole.
C10_YeInitial ==
    Done => C10_Holds(language[1], text, normalizeArmenianWord(language[1], text))

\* A Latin rendering of a word with the capital letter ech first begins "Ye".
C10_YeOnset ==
    /\ Done
    /\ language = <<"en">>
    /\ Len(text) >= 2
    /\ text[1] = cp.ECH
    /\ toLowerCase(SubSeq(result.val, 1, 2)) = <<121, 101>>

(***************************************************************************)
(* Callers for the conjunction letter: pieces built from the letter ew,    *)
(* its two-letter spellings, a vowel, a consonant, a kept punctuation mark *)
(* and the eternity sign U+058E.                                           *)
(***************************************************************************)
YevAlphabet ==
    { cp.ew, cp.ECH, cp.ech, cp.yiwn, cp.ayb, cp.vew, cp.hyphen, cp.eternity }

YevTexts == SeqsUpTo(YevAlphabet, MaxWordLen) \ { <<>> }

CallYev == pc = "idle" /\ \E t \in YevTexts, g \in { <<"en">>, <<"ru">> } : Call(t, g)

NextYev == CallYev \/ Continue

SpecYev == Init /\ [][NextYev]_vars

\* The sentinel the forward map of script s writes for the letter ew.
YevSentinel(s) ==
    TEMP_SYMBOLS_MAP(s).forward[
        CHOOSE i \in 1..Len(TEMP_SYMBOLS_MAP(s).forward) :
            TEMP_SYMBOLS_MAP(s).forward[i][1] = <<cp.ew>>][2]

\* "ev" for the sentinel of ew, the character mapping for any other character.
YevPlainChar(s, c) ==
    IF c = YevSentinel(s) THEN (IF s = "en" THEN <<101, 118>> ELSE <<1077, 1074>>)
    ELSE mapArmenianChar(s, c)

YevPlainChars(s, chars) == Flatten([i \in 1..Len(chars) |-> YevPlainChar(s, chars[i])])

\* The piece is handed to the word pipeline as one word.
IsOneWord(piece) ==
    /\ \E j \in 1..Len(piece) : ClassMatches(ARMENIAN_LETTER_REGEX, piece[j])
    /\ \A j \in 1..Len(piece) : ~IsWhiteSpace(piece[j])

\* What the conjunction-letter rule asks of the rendering out of a word whose
\* normalized form is n: the sentinel first gives "yev" and then the plain
\* rendering of the rest; with another first character that no other rule is
\* for, every character has its plain rendering.
C11_Rendered(s, n, out) ==
    /\ \A j \in 1..Len(n) : n[j] # cp.ew
    /\ n[1] = YevSentinel(s)
           => toLowerCase(out) =
                  toLowerCase((IF s = "en" THEN <<121, 101, 118>> ELSE <<1077, 1074>>)
                                  \o YevPlainChars(s, Tail(n)))
    /\ (n[1] # YevSentinel(s) /\ n[1] \notin {cp.ECH, cp.VO, cp.vo})
           => toLowerCase(out) = toLowerCase(YevPlainChars(s, n))

\* C11: in both pipelines a word is normalized so that the letter ew and its
\* spellings are one sentinel; the conjunction-letter rule triggers exactly
\* when that sentinel is the first character of the word, giving "yev"
\* (Cyrillic "ев") and the mapped rest, and the sentinel at a later position
\* is rendered "ev" ("ев").
C11_YevRule ==
    Done =>
        \A i \in 1..Len(tokens) :
            IsOneWord(tokens[i])
                => C11_Rendered(language[1],
                                normalizeArmenianWord(language[1], tokens[i]),
                                processedTokens[i])

\* The entries of the punctuation map applied from the last one to the first.
RECURSIVE PunctuationDownFrom(_, _)
PunctuationDownFrom(str, i) ==
    IF i < 1 THEN str
    ELSE PunctuationDownFrom(
            SplitJoin(str, <<ARM_PUNCTUATION_MAP[i][1]>>, ARM_PUNCTUATION_MAP[i][2]),
            i - 1)

\* The substitution of a piece replaced every mark by its counterpart, and
\* gave what the entries give in the opposite order.
C12_Substituted(piece, substituted) ==
    /\ substituted = SubstituteMarks(piece)
    /\ substituted = PunctuationDownFrom(piece, Len(ARM_PUNCTUATION_MAP))

\* C12: in every piece, with or without Armenian letters, every occurrence of
\* a key of the punctuation map is replaced by its counterpart, whatever the
\* order of the entries; a piece that is not a word is that substitution and
\* nothing else, and the output holds no key of the punctuation map.
C12_PunctuationSubstituted ==
    Done =>
        /\ \A j \in 1..Len(result.val) : result.val[j] \notin PunctuationKeys
        /\ \A i \in 1..Len(tokens) :
               /\ C12_Substituted(tokens[i], replaceArmenianPunctuation(tokens[i]))
               /\ (\A j \in 1..Len(tokens[i]) :
                       ~ClassMatches(ARMENIAN_LETTER_REGEX, CounterpartOf(tokens[i][j])[1]))
                      => processedTokens[i] = SubstituteMarks(tokens[i])

\* A text with a mark inside a word and a mark in a delimiter has been
\* transliterated, both counterparts being in the output.
C12_MarksInWordAndDelimiter ==
    /\ Done
    /\ HasArmenianLetter(text)
    /\ \E j \in 1..Len(text) : text[j] = cp.lguil
    /\ \E j \in 1..Len(text) : text[j] = cp.question
    /\ \E j \in 1..Len(result.val) : result.val[j] = 34
    /\ \E j \in 1..Len(result.val) : result.val[j] = 63

(***************************************************************************)
(* Callers for the multi-letter sequences of the Cyrillic pipeline: words  *)
(* of the letters of its three-letter keys.                                *)
(***************************************************************************)
SeqAlphabet == { cp.yi, cp.YI, cp.vo, cp.yiwn }

SeqWords == SeqsUpTo(SeqAlphabet, MaxSeqLen) \ { <<>> }

CallSeq == pc = "idle" /\ \E t \in SeqWords : Call(t, <<"ru">>)

NextSeq == CallSeq \/ Continue

SpecSeq == Init /\ [][NextSeq]_vars

\* The entries of the forward map of script s whose key occurs at the head of w.
KeysAtHead(s, w) ==
    { i \in 1..Len(TEMP_SYMBOLS_MAP(s).forward) :
        OccursAt(w, 1, TEMP_SYMBOLS_MAP(s).forward[i][1]) }

\* One of them with the longest key.
LongestAtHead(s, w) ==
    CHOOSE i \in KeysAtHead(s, w) :
        \A k \in KeysAtHead(s, w) :
            Len(TEMP_SYMBOLS_MAP(s).forward[k][1]) <= Len(TEMP_SYMBOLS_MAP(s).forward[i][1])

\* w read from left to right, the longest key at each position replaced by
\* its sentinel.
RECURSIVE LongestFirst(_, _)
LongestFirst(s, w) ==
    IF w = <<>> THEN <<>>
    ELSE IF KeysAtHead(s, w) = {} THEN <<Head(w)>> \o LongestFirst(s, Tail(w))
    ELSE <<TEMP_SYMBOLS_MAP(s).forward[LongestAtHead(s, w)][2]>>
         \o LongestFirst(s, SubSeq(w, Len(TEMP_SYMBOLS_MAP(s).forward[LongestAtHead(s, w)][1]) + 1,
                                   Len(w)))

\* The places of w where one of the three-letter sequences begins.
ThreeLetterPlaces(w) ==
    { i \in 1..(Len(w) - 2) :
        (w[i] = cp.yi \/ w[i] = cp.YI) /\ w[i + 1] = cp.vo /\ w[i + 2] = cp.yiwn }

\* The places of out that hold the Cyrillic letter yu, small or capital.
YuPlaces(out) == { j \in 1..Len(out) : out[j] = 1102 \/ out[j] = 1070 }

\* C13: in the Cyrillic pipeline a word is normalized as by replacing, from
\* left to right, the longest forward key at each position, so each of the
\* three-letter sequences, wherever and however often it occurs, becomes its
\* own sentinel and is rendered by one Cyrillic yu; the two-letter key of its
\* last two letters never takes part of it.
C13_LongestFirst ==
    (Done /\ language = <<"ru">>) =>
        /\ normalizeArmenianWord("ru", text) = LongestFirst("ru", text)
        /\ Cardinality(YuPlaces(result.val)) = Cardinality(ThreeLetterPlaces(text))

\* A word with two occurrences of the three-letter sequence came out with
\* two letters yu.
C13_TwoOccurrences ==
    /\ Done
    /\ language = <<"ru">>
    /\ Cardinality(ThreeLetterPlaces(text)) = 2
    /\ Cardinality(YuPlaces(result.val)) = 2

(***************************************************************************)
(* Callers for the presentation-form ligatures: texts built from           *)
(* ligatures, the letters of their expansions, a vowel and the letter vo.  *)
(***************************************************************************)
LigAlphabet ==
    { cp.ligLo, cp.ligLo + 1, cp.ligHi, cp.men, cp.now, cp.ech, cp.ayb, cp.vo }

LigTexts == SeqsUpTo(LigAlphabet, MaxWordLen) \ { <<>> }

CallLig == pc = "idle" /\ \E t \in LigTexts, g \in { <<"en">>, <<"ru">> } : Call(t, g)

NextLig == CallLig \/ Continue

SpecLig == Init /\ [][NextLig]_vars

IsLigature(c) == \E i \in 1..Len(ARMENIAN_LIGATURES) : ARMENIAN_LIGATURES[i].ligature = c

\* A word of Armenian letters in which a ligature occurs.
HasLigatureInWord(str) ==
    /\ \E j \in 1..Len(str) : IsLigature(str[j])
    /\ \E j \in 1..Len(str) : IsArmenianLetter(str[j])
    /\ \A j \in 1..Len(str) : ~IsWhiteSpace(str[j])

\* C14: a word of the text in which a ligature occurs is rendered by
\* transliterate exactly as the same word written with the two expanded
\* letters in place of each ligature.
C14_LigatureExpanded ==
    (Done /\ HasLigatureInWord(text)) =>
        result.val = transliterate(ExpandLigatures(text, 1), language, 0).val

(***************************************************************************)
(* Callers for the aspirated consonants: words built from the letters to,  *)
(* piwr and keh in both cases, a vowel and a digit.                        *)
(***************************************************************************)
AspAlphabet == { cp.to, cp.TO, cp.piwr, cp.PIWR, cp.keh, cp.KEH, cp.ayb, cp.zero }

AspWords == SeqsUpTo(AspAlphabet, MaxWordLen) \ { <<>> }

CallAsp == pc = "idle" /\ \E t \in AspWords, g \in { <<"en">>, <<"ru">> } : Call(t, g)

NextAsp == CallAsp \/ Continue

SpecAsp == Init /\ [][NextAsp]_vars

IsAspirated(c) == c \in { cp.to, cp.TO, cp.piwr, cp.PIWR, cp.keh, cp.KEH }

\* The small letter an aspirated consonant is to be rendered as: Latin t, p, k
\* or Cyrillic U+0442, U+043F, U+043A; any other character as it is mapped.
AspiratedPlain(s, c) ==
    IF c \in { cp.to, cp.TO } THEN (IF s = "en" THEN <<116>> ELSE <<1090>>)
    ELSE IF c \in { cp.piwr, cp.PIWR } THEN (IF s = "en" THEN <<112>> ELSE <<1087>>)
    ELSE IF c \in { cp.keh, cp.KEH } THEN (IF s = "en" THEN <<107>> ELSE <<1082>>)
    ELSE mapArmenianChar(s, c)

\* C15: in the output of transliterate each aspirated consonant to, piwr,
\* keh of a word is the letter t, p, k (Cyrillic: the letters U+0442,
\* U+043F, U+043A) in some case, and no apostrophe stands in the output.
C15_AspiratedPlain ==
    (Done /\ \E j \in 1..Len(text) : IsAspirated(text[j])) =>
        /\ toLowerCase(result.val) =
               toLowerCase(Flatten([j \in 1..Len(text) |->
                                        AspiratedPlain(language[1], text[j])]))
        /\ \A j \in 1..Len(result.val) : result.val[j] # cp.apostrophe

(***************************************************************************)
(* Callers of the character mapping functions: one code point of printable *)
(* ASCII, of the Armenian block or one of the sentinels, in either script. *)
(***************************************************************************)
CodePoints ==
    (32..126) \cup (cp.blockLo..cp.blockHi)
        \cup { cp.asterism, cp.currency, cp.phono, cp.interrobang, cp.ligLo }

\* One call of mapArmenianCharToLatin(ch) or mapArmenianCharToRussian(ch).
CallMapChar ==
    /\ pc = "idle"
    /\ \E ch \in CodePoints, s \in Scripts :
          /\ text' = <<ch>>
          /\ language' = <<s>>
          /\ result' = [kind |-> "string", val |-> mapArmenianChar(s, ch)]
    /\ pc' = "returned"
    /\ UNCHANGED <<tokens, processedTokens, lastIndex>>

NextMapChar == CallMapChar \/ Continue

SpecMapChar == Init /\ [][NextMapChar]_vars

CharacterMap(s) == IF s = "en" THEN ARM_TO_LAT_MAP ELSE ARM_TO_RUS_MAP

C16_Holds(s, ch, out) ==
    /\ ch \in DOMAIN TEMP_SYMBOLS_MAP(s).backward
           => out = TEMP_SYMBOLS_MAP(s).backward[ch]
    /\ (ch \notin DOMAIN TEMP_SYMBOLS_MAP(s).backward /\ ch \in DOMAIN CharacterMap(s))
           => out = CharacterMap(s)[ch]
    /\ (ch \notin DOMAIN TEMP_SYMBOLS_MAP(s).backward /\ ch \notin DOMAIN CharacterMap(s))
           => out = <<ch>>

\* C16: mapArmenianCharToLatin / mapArmenianCharToRussian return the
\* backward-map string for a sentinel, otherwise the character-map string
\* for a mapped letter, otherwise the input code point unchanged.
C16_IdentityFallback ==
    pc = "returned" => C16_Holds(language[1], text[1], result.val)

\* A digit, a Latin letter and a generic punctuation mark are each returned
\* unchanged, in either script.
C16_DigitUnchanged ==
    /\ pc = "returned"
    /\ text[1] \in { cp.zero, cp.latA, cp.bang }
    /\ text[1] \notin DOMAIN CharacterMap(language[1])
    /\ result.val = text

\* The sentinels the forward map of script s can write.
ForwardValues(s) ==
    { TEMP_SYMBOLS_MAP(s).forward[i][2] : i \in 1..Len(TEMP_SYMBOLS_MAP(s).forward) }

\* Every sentinel standing in the normalized word n is a key of the backward
\* map and is mapped to its backward string, which is not empty.
C17_Mapped(s, n) ==
    \A j \in 1..Len(n) :
        n[j] \in ForwardValues(s) =>
            /\ n[j] \in DOMAIN TEMP_SYMBOLS_MAP(s).backward
            /\ mapArmenianChar(s, n[j]) = TEMP_SYMBOLS_MAP(s).backward[n[j]]
            /\ mapArmenianChar(s, n[j]) # <<>>

\* C17: in each script every value of TEMP_SYMBOLS_MAP.forward is a key of
\* TEMP_SYMBOLS_MAP.backward, and every sentinel that normalization writes
\* into a word is mapped to a target-script string by the character mapping.
C17_SentinelsPaired ==
    /\ \A s \in Scripts : ForwardValues(s) \subseteq DOMAIN TEMP_SYMBOLS_MAP(s).backward
    /\ Done => C17_Mapped(language[1], normalizeArmenianWord(language[1], text))

C17_Written(s, word, n) ==
    /\ \A j \in 1..Len(word) : word[j] \notin ForwardValues(s)
    /\ \E j \in 1..Len(n) : n[j] \in ForwardValues(s)

\* Normalization has written a sentinel into a word that had none.
C17_SentinelWritten ==
    /\ Done
    /\ C17_Written(language[1], text, normalizeArmenianWord(language[1], text))

(***************************************************************************)
(* Callers for the casing pattern: texts of Armenian letters of both       *)
(* cases, the ligature ew, a digit, a Latin and a Cyrillic letter, an      *)
(* Armenian punctuation mark, an Armenian-block sign and a space.          *)
(***************************************************************************)
CaseAlphabet ==
    { cp.AYB, cp.ayb, cp.ew, cp.zero, cp.latA, cp.cyrya, cp.question, cp.dram,
      cp.space }

CaseTexts == SeqsUpTo(CaseAlphabet, MaxLen) \ { <<>> }

CallCase == pc = "idle" /\ \E t \in CaseTexts, g \in { <<"en">>, <<"ru">> } : Call(t, g)

NextCase == CallCase \/ Continue

SpecCase == Init /\ [][NextCase]_vars

\* The pattern of a word by a full scan of its Armenian letters.
FullScanPattern(word) ==
    IF (\E j \in 1..Len(word) : IsArmenianCapital(word[j]))
           /\ (\E j \in 1..Len(word) : IsArmenianSmall(word[j]))
    THEN "mixed"
    ELSE IF \E j \in 1..Len(word) : IsArmenianCapital(word[j]) THEN "upper"
    ELSE "lower"

\* The words applyOriginalCasingPattern is called with for the token: the
\* whitespace-separated pieces of the token after punctuation replacement,
\* when it has a character of ARMENIAN_LETTER_REGEX.
CasedWords(substituted) ==
    IF RegExpTest(ARMENIAN_LETTER_REGEX, 0, substituted).found
    THEN Range(SplitOnWhitespace(substituted))
    ELSE {}

\* C18: determineCasingPattern gives each word it is called with the pattern
\* of a full scan of the word's Armenian letters alone: MIXED with a capital
\* and a small letter, UPPER with a capital and no small letter, LOWER
\* otherwise; digits, punctuation and letters of other scripts do not count.
C18_CasingFromLetters ==
    Done =>
        \A i \in 1..Len(tokens) :
            \A w \in CasedWords(replaceArmenianPunctuation(tokens[i])) :
                determineCasingPattern(w, lastIndex).pattern = FullScanPattern(w)

\* A word with a capital letter, a digit and a small letter has been
\* classified as MIXED.
C18_MixedAroundDigit ==
    /\ Done
    /\ \E i \in 1..Len(tokens) :
          \E w \in CasedWords(replaceArmenianPunctuation(tokens[i])) :
              /\ determineCasingPattern(w, lastIndex).pattern = "mixed"
              /\ \E j \in 1..Len(w) : w[j] = cp.zero

\* What the first character c of a normalized word may contribute: its plain
\* mapping, or the onset a first-character rule of script s writes for it.
FirstContributions(s, c) ==
    { mapArmenianChar(s, c) }
        \cup (IF c = cp.ECH THEN { IF s = "en" THEN <<89, 101>> ELSE <<1045>> } ELSE {})
        \cup (IF c \in { cp.VO, cp.vo }
              THEN (IF s = "en" THEN { <<111>>, <<118, 111>> }
                                ELSE { <<1086>>, <<1074, 1086>> })
              ELSE {})
        \cup (IF c = YevSentinel(s) /\ s = "en" THEN { <<121, 101, 118>> } ELSE {})

\* out is, up to case, one contribution of the first character of n followed by
\* the mapping of each later character of n, once each and in order.
C19_Holds(s, n, out) ==
    \E first \in FirstContributions(s, n[1]) :
        toLowerCase(out) = toLowerCase(first \o MapChars(s, Tail(n)))

\* C19: the rendering of a word is the contribution of the first code point
\* of its normalized form followed by the mapping of the second and of every
\* later code point, each exactly once and in source order, whatever the
\* length of the word.
C19_EachOnceInOrder ==
    (Done /\ IsOneWord(text)) =>
        C19_Holds(language[1], normalizeArmenianWord(language[1], text), result.val)

C19_RuleAndLoop(s, n, out) ==
    /\ Len(n) = 3
    /\ n[1] \in { cp.VO, cp.vo, cp.ECH }
    /\ mapArmenianChar(s, n[3]) # <<>>
    /\ SubSeq(toLowerCase(out), Len(out) - Len(mapArmenianChar(s, n[3])) + 1, Len(out))
           = toLowerCase(mapArmenianChar(s, n[3]))

\* A word of three code points that a first-character rule matches has been
\* rendered, its third code point by the main loop.
C19_ThreeWithRule ==
    /\ Done
    /\ IsOneWord(text)
    /\ C19_RuleAndLoop(language[1], normalizeArmenianWord(language[1], text), result.val)

(***************************************************************************)
(* Callers of applyFirstCharRules: a first character that a rule is for,   *)
(* or another one, and a second character or none.                         *)
(***************************************************************************)
RuleFirsts ==
    { cp.ECH, cp.ech, cp.VO, cp.vo, cp.currency, cp.eternity, cp.asterism,
      cp.ayb, cp.vew, cp.zero }

RuleSeconds == { <<>>, <<cp.ayb>>, <<cp.vew>>, <<cp.ech>>, <<cp.currency>>, <<cp.zero>> }

\* One call of applyFirstCharRules([firstChar, secondChar]) of script s.
CallRules(firstChar, secondChar, s) ==
    /\ pc = "idle"
    /\ text' = <<firstChar>> \o secondChar
    /\ language' = <<s>>
    /\ result' = [kind |-> "string", val |-> applyFirstCharRules(s, firstChar, secondChar)]
    /\ pc' = "returned"
    /\ UNCHANGED <<tokens, processedTokens, lastIndex>>

CallAnyRules ==
    \E firstChar \in RuleFirsts, secondChar \in RuleSeconds, s \in Scripts :
        CallRules(firstChar, secondChar, s)

NextRules == CallAnyRules \/ Continue

\* Every call returns and the caller goes on calling.
SpecRules == Init /\ [][NextRules]_vars /\ WF_vars(NextRules)

RECURSIVE RulesIn(_, _, _, _, _)
\* The loop of applyFirstCharRules over the rule list rules instead of
\* FIRST_CHAR_RULES.
RulesIn(rules, s, i, firstChar, secondChar) ==
    IF i > Len(rules)
    THEN mapArmenianChar(s, firstChar) \o MapSecond(s, secondChar)
    ELSE IF RuleMatch(s, rules[i], firstChar)
         THEN RuleTransliteration(s, rules[i], secondChar)
         ELSE RulesIn(rules, s, i + 1, firstChar, secondChar)

\* The rule list of script s in every order.
Reorderings(s) ==
    { <<FIRST_CHAR_RULES(s)[i], FIRST_CHAR_RULES(s)[j], FIRST_CHAR_RULES(s)[k]>> :
          <<i, j, k>> \in { p \in (1..3) \X (1..3) \X (1..3) :
                               p[1] # p[2] /\ p[1] # p[3] /\ p[2] # p[3] } }

\* The rules of script s whose predicate holds of the first character.
MatchingRules(s, firstChar) ==
    { i \in 1..Len(FIRST_CHAR_RULES(s)) : RuleMatch(s, FIRST_CHAR_RULES(s)[i], firstChar) }

\* out is what the first rule in list order whose predicate holds gives, or
\* the default mapping of the two characters when none holds.
FirstMatchWins(s, firstChar, secondChar, out) ==
    IF MatchingRules(s, firstChar) = {}
    THEN out = mapArmenianChar(s, firstChar) \o MapSecond(s, secondChar)
    ELSE out = RuleTransliteration(s,
                   FIRST_CHAR_RULES(s)[CHOOSE i \in MatchingRules(s, firstChar) :
                                           \A j \in MatchingRules(s, firstChar) : i <= j],
                   secondChar)

\* Some reordering of the rule list gives another output for this input.
OrderChangesOutput(s, firstChar, secondChar, out) ==
    \E rules \in Reorderings(s) : RulesIn(rules, s, 1, firstChar, secondChar) # out

\* C20 as stated: the first rule in list order whose predicate holds gives
\* the result, the default mapping when none holds, and there is an input
\* for which reordering the rule list changes the output.
C20_OrderSignificant ==
    /\ [](pc = "returned" =>
              FirstMatchWins(language[1], text[1], Tail(text), result.val))
    /\ <>(/\ pc = "returned"
          /\ OrderChangesOutput(language[1], text[1], Tail(text), result.val))

\* C20 as amended: the first rule in list order whose predicate holds gives
\* the result, the default mapping when none holds; at most one rule's
\* predicate holds of any input, and no reordering of the rule list changes
\* the output.
C20_FirstMatchWins ==
    pc = "returned" =>
        /\ FirstMatchWins(language[1], text[1], Tail(text), result.val)
        /\ Cardinality(MatchingRules(language[1], text[1])) <= 1
        /\ ~OrderChangesOutput(language[1], text[1], Tail(text), result.val)

\* A rule other than the first of the list has matched and given the result.
C20_LaterRuleMatched ==
    /\ pc = "returned"
    /\ MatchingRules(language[1], text[1]) # {}
    /\ 1 \notin MatchingRules(language[1], text[1])
    /\ result.val # mapArmenianChar(language[1], text[1]) \o MapSecond(language[1], Tail(text))

(***************************************************************************)
(* Callers of normalizeArmenianWord: words of the letters the forward keys *)
(* are made of and a vowel, in either script.                              *)
(***************************************************************************)
NormAlphabet ==
    { cp.vo, cp.VO, cp.yiwn, cp.ew, cp.ech, cp.ECH, cp.yi, cp.ayb }

NormWords == SeqsUpTo(NormAlphabet, MaxNormLen) \ { <<>> }

\* One call of normalizeArmenianWord(word) of script s.
CallNormalize ==
    /\ pc = "idle"
    /\ \E word \in NormWords, s \in Scripts :
          /\ text' = word
          /\ language' = <<s>>
          /\ result' = [kind |-> "string", val |-> normalizeArmenianWord(s, word)]
    /\ pc' = "returned"
    /\ UNCHANGED <<tokens, processedTokens, lastIndex>>

NextNormalize == CallNormalize \/ Continue

SpecNormalize == Init /\ [][NextNormalize]_vars

\* Some forward key of script s occurs somewhere in w.
HasForwardKey(s, w) ==
    \E i \in 1..Len(w), k \in 1..Len(TEMP_SYMBOLS_MAP(s).forward) :
        OccursAt(w, i, TEMP_SYMBOLS_MAP(s).forward[k][1])

\* The number of characters of w that are sentinels of script s.
SentinelCount(s, w) == Cardinality({ j \in 1..Len(w) : w[j] \in ForwardValues(s) })

\* C21: after normalizeArmenianWord no occurrence of a forward key remains
\* in the word, and the word is the original read from left to right with
\* each occurrence of a key, one after the other without overlap, replaced
\* by exactly one sentinel code point.
C21_GlobalSubstitution ==
    pc = "returned" =>
        /\ ~HasForwardKey(language[1], result.val)
        /\ result.val = LongestFirst(language[1], text)

\* A word in which one key occurred twice has been normalized to a word with
\* two sentinels and nothing else.
C21_TwiceReplaced ==
    /\ pc = "returned"
    /\ Len(text) = 4
    /\ SubSeq(text, 1, 2) = SubSeq(text, 3, 4)
    /\ Len(result.val) = 2
    /\ SentinelCount(language[1], result.val) = 2

\* C22: no word obtained by splitting on whitespace a piece that has an
\* Armenian letter after punctuation replacement, and handed to the word
\* pipeline, is empty.
C22_NoEmptyWord ==
    Done =>
        \A i \in 1..Len(tokens) :
            \A w \in CasedWords(replaceArmenianPunctuation(tokens[i])) : w # <<>>

(***************************************************************************)
(* Callers for pieces with whitespace inside: texts of an Armenian-block   *)
(* sign, a letter, a delimiter symbol, a space, a line feed and a tab.     *)
(***************************************************************************)
PieceAlphabet == { cp.dram, cp.ayb, cp.bang, cp.space, cp.lf, cp.tab }

PieceTexts == SeqsUpTo(PieceAlphabet, MaxPieceLen) \ { <<>> }

CallPiece == pc = "idle" /\ \E t \in PieceTexts, g \in { <<"en">>, <<"ru">> } : Call(t, g)

NextPiece == CallPiece \/ Continue

SpecPiece == Init /\ [][NextPiece]_vars

\* The number of maximal runs of whitespace characters of str.
WhitespaceRuns(str) ==
    Cardinality({ i \in 1..Len(str) :
                    IsWhiteSpace(str[i]) /\ (i = 1 \/ ~IsWhiteSpace(str[i - 1])) })

\* str without its whitespace characters.
WithoutWhitespace(str) == SelectSeq(str, LAMBDA c : ~IsWhiteSpace(c))

\* The piece matches ARMENIAN_LETTER_REGEX and has whitespace in it.
SplitPiece(piece) ==
    /\ \E j \in 1..Len(piece) : ClassMatches(ARMENIAN_LETTER_REGEX, piece[j])
    /\ \E j \in 1..Len(piece) : IsWhiteSpace(piece[j])

\* The words of the piece, each as the word pipeline of script s renders it.
RenderedWords(s, words) ==
    [k \in 1..Len(words) |-> transliterateArmenianWord(s, words[k], 0).val]

\* out has one space for each whitespace run of the piece and nothing else
\* between the renderings of the words of the piece.
C23_Holds(s, piece, out) ==
    /\ SingleSpaced(out)
    /\ WhitespaceRuns(out) = WhitespaceRuns(piece)
    /\ WithoutWhitespace(out) = Flatten(RenderedWords(s, SplitOnWhitespace(piece)))

TwoTokensAt(str, k) ==
    /\ 1 < k /\ k < Len(str)
    /\ str[k] = cp.space
    /\ \A j \in 1..Len(str) : j # k => ~IsWhiteSpace(str[j])

C24_Holds(str, k, g, out) ==
    out = transliterate(SubSeq(str, 1, k - 1), g, 0).val
              \o <<cp.space>>
              \o transliterate(SubSeq(str, k + 1, Len(str)), g, 0).val

\* C24: for two tokens w1 and w2 without whitespace, transliterate of w1,
\* a space and w2 is transliterate of w1, a space and transliterate of w2.
C24_WordsIndependent ==
    Done => \A k \in 1..Len(text) :
                TwoTokensAt(text, k) => C24_Holds(text, k, language, result.val)

(***************************************************************************)
(* Callers for the Cyrillic digraph ya: words of the letters yi, ayb and   *)
(* a consonant, in both cases.                                             *)
(***************************************************************************)
YaAlphabet == { cp.yi, cp.YI, cp.ayb, cp.AYB, cp.sha, cp.SHA }

YaWords == SeqsUpTo(YaAlphabet, MaxNormLen) \ { <<>> }

CallYa == pc = "idle" /\ \E t \in YaWords : Call(t, <<"ru">>)

NextYa == CallYa \/ Continue

SpecYa == Init /\ [][NextYa]_vars

RECURSIVE YaScan(_)
\* w in small Cyrillic letters, read from left to right: the letter ya
\* (U+044F) for yi of either case followed by small ayb, every other letter
\* as the character map has it.
YaScan(w) ==
    IF w = <<>> THEN <<>>
    ELSE IF Len(w) >= 2 /\ w[1] \in { cp.yi, cp.YI } /\ w[2] = cp.ayb
         THEN <<cp.cyrya>> \o YaScan(SubSeq(w, 3, Len(w)))
         ELSE toLowerCase(mapArmenianCharToRussian(w[1])) \o YaScan(Tail(w))

\* C25: in the Cyrillic pipeline the letters yi and ayb are rendered as the
\* one letter ya only where yi of either case stands before small ayb; a
\* word all in capitals has no such pair, its capital yi and capital ayb are
\* rendered letter by letter and it comes out as capital letters without ya.
C25_YaDigraph ==
    (Done /\ language = <<"ru">>) =>
        /\ toLowerCase(result.val) = YaScan(text)
        /\ (\A j \in 1..Len(text) : IsArmenianCapital(text[j]))
               => /\ result.val = toUpperCase(YaScan(text))
                  /\ \A j \in 1..Len(result.val) :
                         result.val[j] \notin { cp.cyrya, 1071 }

\* A word all in capitals with capital yi before capital ayb came out with
\* the two letters U+0419 U+0410 in their place.
C25_CapitalsLetterByLetter ==
    /\ Done
    /\ Len(text) = 3
    /\ text[2] = cp.YI /\ text[3] = cp.AYB /\ IsArmenianCapital(text[1])
    /\ SubSeq(result.val, Len(result.val) - 1, Len(result.val)) = <<1049, 1040>>

(***************************************************************************)
(* Callers with every letter of the alphabet: the letter alone, after a    *)
(* delimiter symbol, and before a capital letter.                          *)
(***************************************************************************)
AllLetters ==
    (cp.armCapLo..cp.armCapHi) \cup (cp.armSmLo..cp.armSmHi) \cup { cp.ew }

LetterTexts ==
    { <<c>> : c \in AllLetters }
        \cup { <<cp.bang, c>> : c \in AllLetters }
        \cup { <<c, cp.AYB>> : c \in AllLetters }

CallLetters == pc = "idle" /\ \E t \in LetterTexts, g \in { <<"en">>, <<"ru">> } : Call(t, g)

NextLetters == CallLetters \/ Continue

SpecLetters == Init /\ [][NextLetters]_vars

\* C26: in each script the character map has an entry for every capital
\* and every small letter of the alphabet and the sentinel map has the
\* ligature ew as a key, and the output of transliterate has no Armenian
\* letter and no ligature ew in it.
C26_NoLetterLeft ==
    /\ \A s \in Scripts :
          /\ (AllLetters \ { cp.ew }) \subseteq DOMAIN CharacterMap(s)
          /\ \E i \in 1..Len(TEMP_SYMBOLS_MAP(s).forward) :
                 TEMP_SYMBOLS_MAP(s).forward[i][1] = <<cp.ew>>
    /\ Done => \A j \in 1..Len(result.val) : ~IsArmenianLetter(result.val[j])

\* A text of a capital letter after a delimiter symbol came out as the
\* symbol and the letter's rendering.
C26_CapitalRendered ==
    /\ Done
    /\ Len(text) = 2
    /\ text[1] = cp.bang
    /\ IsArmenianCapital(text[2])
    /\ result.val = <<cp.bang>> \o toUpperCase(mapArmenianChar(language[1], text[2]))

(***************************************************************************)
(* Callers with sentinel code points in the text: two sentinels, the       *)
(* letters of their sequences, a vowel, an Armenian-block sign, a          *)
(* delimiter symbol and a space.                                           *)
(***************************************************************************)
SentinelAlphabet ==
    { cp.currency, cp.asterism, cp.vo, cp.yiwn, cp.ew, cp.ayb, cp.dram, cp.bang,
      cp.space }

SentinelTexts == SeqsUpTo(SentinelAlphabet, MaxLen) \ { <<>> }

CallSentinel ==
    pc = "idle" /\ \E t \in SentinelTexts, g \in { <<"en">>, <<"ru">> } : Call(t, g)

NextSentinel == CallSentinel \/ Continue

SpecSentinel == Init /\ [][NextSentinel]_vars

\* The sentinel code points of str, in order.
SentinelsOf(s, str) == SelectSeq(str, LAMBDA c : IsSentinel(s, c))

\* C27: the output has a sentinel code point exactly where the input has
\* it: none when the input has none, and a sentinel of the input is in the
\* output as it was, not rendered as the sequence it stands for.
C27_SentinelsPassThrough ==
    Done => SentinelsOf(language[1], result.val) = SentinelsOf(language[1], text)

\* C28: transliterate of the output of transliterate, with the same script
\* tag, is that output again.
C28_Idempotent ==
    Done => transliterate(result.val, language, 0).val = result.val

(***************************************************************************)
(* Callers for words that begin with a kept character that is no letter:   *)
(* an opening guillemet, a hyphen, a digit or a comma, and the letters the *)
(* first-character rules are for.                                          *)
(***************************************************************************)
LeadMarks == { cp.lguil, cp.hyphen, cp.zero, cp.comma }

LeadAlphabet == LeadMarks \cup { cp.ECH, cp.VO, cp.ew, cp.ayb }

LeadWords == SeqsUpTo(LeadAlphabet, MaxWordLen) \ { <<>> }

CallLead == pc = "idle" /\ \E t \in LeadWords, g \in { <<"en">>, <<"ru">> } : Call(t, g)

NextLead == CallLead \/ Continue

SpecLead == Init /\ [][NextLead]_vars

UpperAlphabet == { cp.VO, cp.vo, cp.YIWN, cp.yiwn, cp.ECH, cp.ech, cp.AYB }

UpperWords == SeqsUpTo(UpperAlphabet, MaxNormLen) \ { <<>> }

CallUpper == pc = "idle" /\ \E t \in UpperWords, g \in { <<"en">>, <<"ru">> } : Call(t, g)

NextUpper == CallUpper \/ Continue

SpecUpper == Init /\ [][NextUpper]_vars

AllCapital(w) == \A i \in 1..Len(w) : IsUpperLetter(w[i])

\* What the first letter of a word of two or more letters gives when it is
\* read as a letter of its own: "vo" for the letter vo before a consonant,
\* "o" before a vowel or vew, "ye" for the capital ech.
WordStart(s, w) ==
    IF w[1] = cp.VO \/ w[1] = cp.vo
    THEN (IF w[2] \in ARM_VOWELS \cup { cp.vew, cp.VEW }
          THEN (IF s = "en" THEN <<111>> ELSE <<1086>>)
          ELSE (IF s = "en" THEN <<118, 111>> ELSE <<1074, 1086>>))
    ELSE IF w[1] = cp.ECH THEN (IF s = "en" THEN <<89, 101>> ELSE <<1045>>)
    ELSE mapArmenianChar(s, w[1])

LetterByLetter(s, w) ==
    WordStart(s, w) \o Flatten([i \in 1..(Len(w) - 1) |-> mapArmenianChar(s, w[i + 1])])

StartsWith(out, prefix) ==
    Len(out) >= Len(prefix) /\ SubSeq(out, 1, Len(prefix)) = prefix

\* C30: a word of two or more capital letters is rendered letter by letter,
\* the capital digraphs vo-yiwn and ech-yiwn included (yiwn gives "u"), so a
\* word that begins with capital vo-yiwn begins "VOU" (Cyrillic: the same
\* three letters); a word that begins with capital vo and small yiwn begins
\* with the single letter "U".
C30_CapitalDigraphLetterByLetter ==
    (Done /\ Len(text) >= 2) =>
        /\ AllCapital(text) =>
              /\ result.val = toUpperCase(LetterByLetter(language[1], text))
              /\ (text[1] = cp.VO /\ text[2] = cp.YIWN) =>
                    StartsWith(result.val,
                               IF language[1] = "en" THEN <<86, 79, 85>>
                               ELSE <<1042, 1054, 1059>>)
        /\ (text[1] = cp.VO /\ text[2] = cp.yiwn) =>
              result.val[1] = (IF language[1] = "en" THEN 85 ELSE 1059)

\* A word in capitals that begins with vo-yiwn was rendered "VOU...", and the
\* same word with only its first letter capital gives an output whose
\* uppercasing is another string.
C30_UppercasingNotPreserved ==
    /\ Done /\ Len(text) >= 3 /\ AllCapital(text)
    /\ text[1] = cp.VO /\ text[2] = cp.YIWN
    /\ StartsWith(result.val, IF language[1] = "en" THEN <<86, 79, 85>>
                                                     ELSE <<1042, 1054, 1059>>)
    /\ toUpperCase(transliterate(<<text[1]>> \o toLowerCase(Tail(text)), language, 0).val)
         # result.val
====
